---- MODULE Spec2Model ----
(***************************************************************************)
(* Constrained optimisation engine of the cement plant decision support.   *)
(*                                                                         *)
(* Part 1: AlternativeFuelOptimizer.optimize_fuel_mix, the linear program  *)
(* over the six catalogued fuels.                                          *)
(*                                                                         *)
(* The linear program is solved in exact arithmetic.  Fuel properties with *)
(* decimals are kept as scaled integers (cost_per_gj and handling_cost in  *)
(* tenths, co2_emission in hundredths); a fraction is a pair numerator /   *)
(* denominator.  What the program rounds or compares as a Python float is  *)
(* computed in IEEE 754 double precision.                                  *)
(***************************************************************************)
EXTENDS Integers, Sequences, FiniteSets, TLC

VARIABLES
    args,      \* arguments of the last optimize_fuel_mix call
    result,    \* what that call returned
    pc,        \* "idle" | "built" | "returned" | "raised": where the call stands;
               \* "NameError": the module of the optimizer failed to import
    request,   \* the request to the fuel-mix endpoint that made the call, if any
    bayesian_optimizer,  \* ProcessOptimizer.bayesian_optimizer: "None" or "BayesianOptimizer"
    X_observed,          \* BayesianOptimizer.X_observed
    y_observed,          \* BayesianOptimizer.y_observed
    gp,                  \* BayesianOptimizer.gp: the data the surrogate was last fitted on
    suggestion,          \* outcome of the last suggest_next_point call
    score,               \* the last objective_function call and what it returned
    tasks,               \* the coroutines in flight on the event loop, by number
    running,             \* the coroutine the event loop is running, or 0
    composition,         \* argument of the last CementChemistryConstraints call
    chemistry,           \* what that call returned
    footprint,           \* arguments of the last _calculate_sustainability_score call
    sustainability,      \* what that call returned
    summation,           \* how the interpreter's builtin sum adds floats: "plain" or
                         \* "compensated"; "unobserved" while no call has summed
    optimization,        \* outcome of the last optimize_with_public_data call run on its own
    completed            \* how many of these calls have returned a result

fuelVars == <<args, result, pc, request>>

searchVars == <<bayesian_optimizer, X_observed, y_observed, gp, suggestion, score>>

serviceVars == <<tasks, running>>

chemVars == <<composition, chemistry>>

carbonVars == <<footprint, sustainability, summation>>

callVars == <<optimization, completed>>

vars == <<fuelVars, searchVars, serviceVars, chemVars, carbonVars, callVars>>

---------------------------------------------------------------------------
(* Bounds of the model *)

\* largest total_energy_required (GJ/hour) a call is made with
MaxEnergy == 200

---------------------------------------------------------------------------
(* The fuel catalogue: AlternativeFuelOptimizer.__init__ *)

\* fuels = list(self.fuel_properties.keys()), in insertion order
Fuels == <<"coal", "rice_husk", "rdf", "biomass", "pet_coke", "tyre_chips">>

Idx == 1..Len(Fuels)

FuelNames == {Fuels[i] : i \in Idx}

\* cost_per_gj x10, handling_cost x10, co2_emission x100, calorific_value x10
fuel_properties ==
    [coal       |-> [calorific_value |-> 255, ash_content |-> 12, moisture |-> 5,
                     cost_per_gj |-> 32, co2_emission |-> 9460, handling_cost |-> 5],
     rice_husk  |-> [calorific_value |-> 162, ash_content |-> 18, moisture |-> 10,
                     cost_per_gj |-> 18, co2_emission |-> 946, handling_cost |-> 12],
     rdf        |-> [calorific_value |-> 185, ash_content |-> 15, moisture |-> 20,
                     cost_per_gj |-> 5, co2_emission |-> 3784, handling_cost |-> 20],
     biomass    |-> [calorific_value |-> 148, ash_content |-> 8, moisture |-> 15,
                     cost_per_gj |-> 21, co2_emission |-> 473, handling_cost |-> 15],
     pet_coke   |-> [calorific_value |-> 325, ash_content |-> 1, moisture |-> 1,
                     cost_per_gj |-> 28, co2_emission |-> 9280, handling_cost |-> 8],
     tyre_chips |-> [calorific_value |-> 280, ash_content |-> 6, moisture |-> 2,
                     cost_per_gj |-> 12, co2_emission |-> 7500, handling_cost |-> 18]]

\* self.constraints
constraints ==
    [max_ash_content |-> 15, max_moisture |-> 12, min_calorific_value |-> 20,
     max_alternative_fuel_rate |-> 50, min_flame_temperature |-> 1800]

\* scale of co2_emission in fuel_properties above
Co2Scale == 100

---------------------------------------------------------------------------
(* Arithmetic helpers *)

Abs(n) == IF n < 0 THEN -n ELSE n

Min(a, b) == IF a <= b THEN a ELSE b

RECURSIVE GcdNat(_, _)
GcdNat(a, b) == IF b = 0 THEN a ELSE GcdNat(b, a % b)

Gcd(a, b) == GcdNat(Abs(a), Abs(b))

RECURSIVE SumTo(_, _)
\* f[1] + ... + f[n]
SumTo(f, n) == IF n = 0 THEN 0 ELSE f[n] + SumTo(f, n - 1)

\* sum over the fuels of f[i]
SumFuels(f) == SumTo(f, Len(Fuels))

RECURSIVE GcdTo(_, _)
GcdTo(f, n) == IF n = 0 THEN 0 ELSE Gcd(f[n], GcdTo(f, n - 1))

RECURSIVE SortedSeq(_)
\* the elements of a finite set of integers in increasing order
SortedSeq(S) ==
    IF S = {} THEN <<>>
    ELSE LET m == CHOOSE x \in S : \A y \in S : x <= y
         IN  <<m>> \o SortedSeq(S \ {m})

\* dict.get(key, default)
Get(d, key, default) == IF key \in DOMAIN d THEN d[key] ELSE default

\* Natural numbers beyond the machine word, as little-endian sequences of
\* base-10000 digits: sums and products are compared exactly where the
\* products of the program's floating-point numbers exceed the word.
RECURSIVE BigCarry(_, _)
BigCarry(s, carry) ==
    IF s = <<>>
    THEN IF carry = 0 THEN <<>> ELSE <<carry % 10000>> \o BigCarry(<<>>, carry \div 10000)
    ELSE <<(s[1] + carry) % 10000>> \o BigCarry(Tail(s), (s[1] + carry) \div 10000)

ToBig(k) == BigCarry(<<>>, k)

BigDigit(b, i) == IF i <= Len(b) THEN b[i] ELSE 0

\* b * k, for 0 <= k <= 200000
BigScale(b, k) == BigCarry([i \in 1..Len(b) |-> b[i] * k], 0)

BigAdd(a, b) ==
    BigCarry([i \in 1..(IF Len(a) >= Len(b) THEN Len(a) ELSE Len(b)) |->
                 BigDigit(a, i) + BigDigit(b, i)], 0)

RECURSIVE BigLeqFrom(_, _, _)
BigLeqFrom(a, b, i) ==
    IF i = 0 THEN TRUE
    ELSE IF BigDigit(a, i) # BigDigit(b, i) THEN BigDigit(a, i) < BigDigit(b, i)
    ELSE BigLeqFrom(a, b, i - 1)

BigLeq(a, b) == BigLeqFrom(a, b, IF Len(a) >= Len(b) THEN Len(a) ELSE Len(b))

RECURSIVE BigMul(_, _)
BigMul(a, b) ==
    IF b = <<>> THEN <<>>
    ELSE BigAdd(BigScale(a, b[1]), <<0>> \o BigMul(a, Tail(b)))

\* n * m <= p * q, for natural numbers
LeqProducts(n, m, p, q) == BigLeq(BigMul(ToBig(n), ToBig(m)), BigMul(ToBig(p), ToBig(q)))

---------------------------------------------------------------------------
(* Floating-point numbers *)

\* Python's float is the IEEE 754 binary64 number: a sign, a significand of at
\* most 53 bits and a power of two.  A float is the record [s, m, e] of value
\* s * m * 2^e with s in {1, -1}, m a natural number written as a little-endian
\* sequence of base-2^14 limbs (no leading zero limb) and m odd; zero has
\* m = << >>, s = 1 and e = 0.  Every operation computes the exact result and
\* rounds it to the nearest float, ties to the even significand, as the
\* hardware does.  Values stay far from the overflow and underflow thresholds.

RECURSIVE Limbs(_, _)
\* the limbs of sum s[i] * 2^(14 (i - 1)) + carry, for s[i] and carry >= 0
Limbs(s, carry) ==
    IF s = <<>>
    THEN IF carry = 0 THEN <<>> ELSE <<carry % 16384>> \o Limbs(<<>>, carry \div 16384)
    ELSE <<(s[1] + carry) % 16384>> \o Limbs(Tail(s), (s[1] + carry) \div 16384)

RECURSIVE Trim(_)
Trim(s) == IF s # <<>> /\ s[Len(s)] = 0 THEN Trim(SubSeq(s, 1, Len(s) - 1)) ELSE s

Limb(a, i) == IF i >= 1 /\ i <= Len(a) THEN a[i] ELSE 0

\* a * k, for 0 <= k < 2^14
NScale(a, k) == Trim(Limbs([i \in 1..Len(a) |-> a[i] * k], 0))

NAdd(a, b) ==
    Limbs([i \in 1..(IF Len(a) >= Len(b) THEN Len(a) ELSE Len(b)) |-> Limb(a, i) + Limb(b, i)], 0)

RECURSIVE NCmpFrom(_, _, _)
NCmpFrom(a, b, i) ==
    IF i = 0 THEN 0
    ELSE IF a[i] # b[i] THEN (IF a[i] < b[i] THEN -1 ELSE 1)
    ELSE NCmpFrom(a, b, i - 1)

\* -1, 0, 1 as a < b, a = b, a > b
NCmp(a, b) ==
    IF Len(a) # Len(b) THEN (IF Len(a) < Len(b) THEN -1 ELSE 1)
    ELSE NCmpFrom(a, b, Len(a))

RECURSIVE NSubFrom(_, _, _, _)
NSubFrom(a, b, i, borrow) ==
    IF i > Len(a) THEN <<>>
    ELSE LET d == a[i] - Limb(b, i) - borrow
         IN  IF d < 0 THEN <<d + 16384>> \o NSubFrom(a, b, i + 1, 1)
             ELSE <<d>> \o NSubFrom(a, b, i + 1, 0)

\* a - b, for a >= b
NSub(a, b) == Trim(NSubFrom(a, b, 1, 0))

RECURSIVE NMul(_, _)
NMul(a, b) ==
    IF b = <<>> \/ a = <<>> THEN <<>>
    ELSE NAdd(NScale(a, b[1]), IF Len(b) = 1 THEN <<>> ELSE <<0>> \o NMul(a, Tail(b)))

RECURSIVE BitsOf(_)
\* number of bits of a natural number below 2^14
BitsOf(k) == IF k = 0 THEN 0 ELSE 1 + BitsOf(k \div 2)

NBitLen(a) == IF a = <<>> THEN 0 ELSE 14 * (Len(a) - 1) + BitsOf(a[Len(a)])

\* a * 2^t
NShl(a, t) ==
    IF a = <<>> THEN <<>>
    ELSE [i \in 1..(t \div 14) |-> 0] \o NScale(a, 2^(t % 14))

\* a \div 2^t
NShr(a, t) ==
    LET q == t \div 14
        r == t % 14
    IN  IF q >= Len(a) THEN <<>>
        ELSE Trim([i \in 1..(Len(a) - q) |->
                     (a[i + q] \div 2^r) + (Limb(a, i + q + 1) % 2^r) * 2^(14 - r)])

\* bit t of a (bit 0 is the lowest)
NBit(a, t) == (Limb(a, t \div 14 + 1) \div 2^(t % 14)) % 2

\* a % 2^t = 0
NLowZero(a, t) ==
    /\ \A i \in 1..(t \div 14) : Limb(a, i) = 0
    /\ Limb(a, t \div 14 + 1) % 2^(t % 14) = 0

RECURSIVE NLowZeros(_, _)
\* number of zero bits below the lowest set bit of a # 0, counted from t
NLowZeros(a, t) ==
    IF t % 14 = 0 /\ Limb(a, t \div 14 + 1) = 0 THEN NLowZeros(a, t + 14)
    ELSE IF NBit(a, t) = 1 THEN t
    ELSE NLowZeros(a, t + 1)

RECURSIVE NToInt(_)
NToInt(a) == IF a = <<>> THEN 0 ELSE a[1] + 16384 * NToInt(Tail(a))

NOfInt(n) == Limbs(<<>>, n)

RECURSIVE DigitFrom(_, _, _, _)
\* the largest g >= acc, built from the bits j..0, with g * t <= r
DigitFrom(r, t, j, acc) ==
    IF j < 0 THEN acc
    ELSE IF NCmp(NScale(t, acc + 2^j), r) <= 0
         THEN DigitFrom(r, t, j - 1, acc + 2^j)
         ELSE DigitFrom(r, t, j - 1, acc)

RECURSIVE NDivModFrom(_, _, _)
\* <<quotient, remainder>> of r by d, for a quotient of at most i limbs
NDivModFrom(r, d, i) ==
    IF i = 0 THEN <<<<>>, r>>
    ELSE LET t    == [k \in 1..(i - 1) |-> 0] \o d
             g    == DigitFrom(r, t, 13, 0)
             rest == NDivModFrom(NSub(r, NScale(t, g)), d, i - 1)
         IN  <<rest[1] \o <<g>>, rest[2]>>

\* <<a \div d, a % d>>, for d # 0
NDivMod(a, d) ==
    IF NCmp(a, d) < 0 THEN <<<<>>, a>>
    ELSE LET qr == NDivModFrom(a, d, Len(a) - Len(d) + 1)
         IN  <<Trim(qr[1]), qr[2]>>

DZero == [s |-> 1, m |-> <<>>, e |-> 0]

\* the float of value s * m * 2^e, for m of at most 53 bits
DExact(s, m, e) ==
    IF m = <<>> THEN DZero
    ELSE LET z == NLowZeros(m, 0)
         IN  [s |-> s, m |-> NShr(m, z), e |-> e + z]

\* the float nearest to s * (m + f) * 2^e, f = 0 or (sticky) 0 < f < 1 with m
\* of more than 53 bits: round to nearest, ties to even
DRound(s, m, e, sticky) ==
    LET t == NBitLen(m) - 53
    IN  IF t <= 0 THEN DExact(s, m, e)
        ELSE LET q    == NShr(m, t)
                 half == NBit(m, t - 1) = 1
                 rest == sticky \/ ~NLowZero(m, t - 1)
                 up   == half /\ (rest \/ NBit(q, 0) = 1)
             IN  DExact(s, IF up THEN NAdd(q, <<1>>) ELSE q, e + t)

DOfInt(n) == DExact(IF n < 0 THEN -1 ELSE 1, NOfInt(IF n < 0 THEN -n ELSE n), 0)

DNeg(a) == IF a.m = <<>> THEN a ELSE [a EXCEPT !.s = -a.s]

DMul(a, b) == DRound(a.s * b.s, NMul(a.m, b.m), a.e + b.e, FALSE)

\* a / b, for b # 0
DDiv(a, b) ==
    IF a.m = <<>> THEN DZero
    ELSE LET k  == NBitLen(b.m) + 55 - NBitLen(a.m)
             qr == NDivMod(NShl(a.m, k), b.m)
         IN  DRound(a.s * b.s, qr[1], a.e - b.e - k, qr[2] # <<>>)

\* -1, 0, 1 as |a| < |b|, |a| = |b|, |a| > |b|
DCmpAbs(a, b) ==
    LET lo == IF a.e <= b.e THEN a.e ELSE b.e
    IN  NCmp(NShl(a.m, a.e - lo), NShl(b.m, b.e - lo))

DAdd(a, b) ==
    IF a.m = <<>> THEN b
    ELSE IF b.m = <<>> THEN a
    ELSE LET lo == IF a.e <= b.e THEN a.e ELSE b.e
             x  == NShl(a.m, a.e - lo)
             y  == NShl(b.m, b.e - lo)
             c  == NCmp(x, y)
         IN  IF a.s = b.s THEN DRound(a.s, NAdd(x, y), lo, FALSE)
             ELSE IF c = 0 THEN DZero
             ELSE IF c > 0 THEN DRound(a.s, NSub(x, y), lo, FALSE)
             ELSE DRound(b.s, NSub(y, x), lo, FALSE)

DSub(a, b) == DAdd(a, DNeg(b))

\* -1, 0, 1 as a < b, a = b, a > b
DCmp(a, b) ==
    IF a.s # b.s THEN a.s
    ELSE IF a.m = <<>> /\ b.m = <<>> THEN 0
    ELSE a.s * DCmpAbs(a, b)

DLess(a, b) == DCmp(a, b) < 0

DLeq(a, b) == DCmp(a, b) <= 0

\* the float of the decimal literal n / d (d > 0): the nearest float
DOf(n, d) == DDiv(DOfInt(n), DOfInt(d))

\* the float of a decimal literal held as the fraction <<n, d>>
FloatOf(f) == DOf(f[1], f[2])

DAbs(a) == [a EXCEPT !.s = 1]

\* min(a, b) and max(a, b) of Python: the first argument unless the second is
\* strictly smaller (larger)
DMin(a, b) == IF DLess(b, a) THEN b ELSE a

DMax(a, b) == IF DLess(a, b) THEN b ELSE a

\* round(x, nd) * 10^nd for scale = 10^nd <= 1000: Python rounds the exact
\* value of the float x to nd decimals, ties to the even digit; the integer
\* returned is the rounded value in units of 10^-nd
PyRound(x, scale) ==
    LET n == NScale(x.m, scale)
    IN  IF x.e >= 0 THEN x.s * NToInt(NShl(n, x.e))
        ELSE LET t    == -x.e
                 q    == NToInt(NShr(n, t))
                 half == NBit(n, t - 1) = 1
                 rest == ~NLowZero(n, t - 1)
             IN  x.s * (IF half /\ (rest \/ q % 2 = 1) THEN q + 1 ELSE q)

\* F(v), with v computed once
With(v, F(_)) == CHOOSE r \in {F(x) : x \in {v}} : TRUE

\* the additions builtin sum() performs on floats: one rounded addition per
\* item, left to right (Python up to 3.11), or Neumaier's compensated
\* summation (Python 3.12 on)
Summations == {"plain", "compensated"}

\* one pass of the compensated loop: t = f + x; c += (f - t) + x if
\* |f| >= |x| else (x - t) + f; f = t
Compensated(acc, x, t) ==
    [f |-> t,
     c |-> DAdd(acc.c,
                IF DCmpAbs(acc.f, x) >= 0
                THEN DAdd(DSub(acc.f, t), x)
                ELSE DAdd(DSub(x, t), acc.f)),
     float |-> TRUE]

\* one item x taken by sum(): the ints ahead of the first float are added as
\* ints and the first float by an ordinary +; from there on the compensated
\* loop takes each float, and adds each int by f += value
SumStep(acc, x, is_int, mode) ==
    IF mode = "compensated" /\ acc.float /\ ~is_int
    THEN With(DAdd(acc.f, x), LAMBDA t : Compensated(acc, x, t))
    ELSE [f |-> DAdd(acc.f, x), c |-> acc.c, float |-> acc.float \/ ~is_int]

RECURSIVE SumLoop(_, _, _, _)
\* sum() after the first n items: the running total f, the compensation c and
\* whether a float has been met.  items[i] is an int for i in ints
SumLoop(items, ints, mode, n) ==
    IF n = 0 THEN [f |-> DZero, c |-> DZero, float |-> FALSE]
    ELSE With(SumLoop(items, ints, mode, n - 1), LAMBDA acc :
              With(items[n], LAMBDA x : SumStep(acc, x, n \in ints, mode)))

\* sum(items): at the end of the compensated loop, f += c if c is not 0
PySum(items, ints, mode) ==
    With(SumLoop(items, ints, mode, Len(items)),
         LAMBDA acc : IF acc.c = DZero THEN acc.f ELSE DAdd(acc.f, acc.c))

---------------------------------------------------------------------------
(* scipy.optimize.linprog(method='highs') on the program optimize_fuel_mix  *)
(* builds.  The feasible region is a bounded polytope, so the solver either *)
(* reports infeasibility or returns an optimal vertex.  Vertices are        *)
(* enumerated exactly: every fuel is at its lower bound, at its upper bound *)
(* or basic ("free"); with f basic fuels, f - 1 of the coupling rows (ash,  *)
(* moisture, alternative rate, co2) are tight, and the f x f system is      *)
(* solved by Cramer's rule.                                                 *)
(*                                                                         *)
(* The system is solved in energy units y[i] = K * x[i], K =                *)
(* total_energy_required, in which the availability row                     *)
(* total_energy_required * x[i] <= availability[fuel] reads y[i] <= avail.  *)

\* b_eq.append(1)
b_eq == 1

\* Constraint 1 left out of the program: with nothing to reach, the cheapest
\* point is the all-zero one, which is what a right-hand side of 0 yields
EqualityRhs_Dropped(K) == b_eq * 0

\* Constraint 1: the fractions sum to 1; in energy units the sum is K
EqualityRhs(K) == b_eq * K

\* M without row 1 and column j
Minor(M, j) ==
    [r \in 1..(Len(M) - 1) |->
        [c \in 1..(Len(M) - 1) |-> M[r + 1][IF c < j THEN c ELSE c + 1]]]

RECURSIVE Det(_)
\* determinant, by expansion along the first row
Det(M) ==
    IF Len(M) = 1 THEN M[1][1]
    ELSE SumTo([j \in 1..Len(M) |->
                  IF M[1][j] = 0 THEN 0
                  ELSE (IF j % 2 = 1 THEN 1 ELSE -1) * M[1][j] * Det(Minor(M, j))],
               Len(M))

\* M with column j replaced by the vector b
WithColumn(M, j, b) ==
    [r \in 1..Len(M) |-> [c \in 1..Len(M) |-> IF c = j THEN b[r] ELSE M[r][c]]]

\* row . y, for y given on the fuels
Dot(row, y) == SumFuels([i \in Idx |-> row[i] * y[i]])

\* row . y beyond the machine word, for row >= 0 and y >= 0
RECURSIVE BigDotTo(_, _, _)
BigDotTo(row, y, n) ==
    IF n = 0 THEN <<>>
    ELSE BigAdd(BigMul(ToBig(y[n]), ToBig(row[n])), BigDotTo(row, y, n - 1))

BigDot(row, y) == BigDotTo(row, y, Len(Fuels))

\* The basic solution of one pattern: st[i] in {"lo", "hi", "free"}, S the set
\* of tight coupling rows.  A set: empty when the system is singular or the
\* point infeasible, else the one vertex [num |-> .., den |-> ..] with
\* y[i] = num[i] / den, den > 0, in lowest terms.
BasicSolution(K, U, rows, st, S) ==
    LET Fs    == SortedSeq({i \in Idx : st[i] = "free"})
        Rs    == SortedSeq(S)
        f     == Len(Fs)
        fixed == [i \in Idx |-> IF st[i] = "hi" THEN U[i] ELSE 0]
        M     == [r \in 1..f |-> [c \in 1..f |->
                     IF r = 1 THEN 1 ELSE rows[Rs[r - 1]].row[Fs[c]]]]
        b     == [r \in 1..f |->
                     IF r = 1 THEN EqualityRhs(K) - SumFuels(fixed)
                     ELSE rows[Rs[r - 1]].rhs * K - Dot(rows[Rs[r - 1]].row, fixed)]
        D     == Det(M)
        sgn   == IF D < 0 THEN -1 ELSE 1
        pos   == [i \in Idx |-> CHOOSE c \in 0..f : (c = 0 /\ st[i] # "free")
                                                \/ (c > 0 /\ Fs[c] = i)]
        raw   == [i \in Idx |->
                     IF pos[i] = 0 THEN fixed[i] * D * sgn
                     ELSE sgn * Det(WithColumn(M, pos[i], b))]
        g     == Gcd(GcdTo(raw, Len(Fuels)), D)
        num   == [i \in Idx |-> raw[i] \div g]
        den   == (D * sgn) \div g
    IN  IF D = 0 THEN {}
        ELSE IF /\ \A i \in Idx : 0 <= num[i] /\ LeqProducts(num[i], 1, U[i], den)
                /\ \A r \in 1..Len(rows) :
                      BigLeq(BigDot(rows[r].row, num),
                             BigMul(ToBig(rows[r].rhs * K), ToBig(den)))
             THEN {[num |-> num, den |-> den]}
             ELSE {}

\* every vertex of { y : sum y = EqualityRhs(K), 0 <= y <= U, rows[r].row . y <= rows[r].rhs * K }.
\* A fuel is tried at its upper bound only when that bound lies strictly between
\* 0 and K: at 0 it is the lower bound, and y[i] = K is the basic solution of
\* fuel i alone.  A fuel whose upper bound is 0 is not tried as basic: it can
\* only be 0, its lower bound.
Vertices(K, U, rows) ==
    LET Basic  == {i \in Idx : U[i] # 0}
        Capped == {i \in Idx : 0 < U[i] /\ U[i] < K}
        St(F, H) == [i \in Idx |-> IF i \in F THEN "free"
                                   ELSE IF i \in H THEN "hi" ELSE "lo"]
    IN  UNION { UNION { UNION { BasicSolution(K, U, rows, St(F, H), S) :
                                  H \in { G \in SUBSET (Capped \ F) :
                                            SumFuels([i \in Idx |-> IF i \in G THEN U[i] ELSE 0])
                                                <= EqualityRhs(K) } } :
                          F \in { G \in SUBSET Basic : Cardinality(G) = Cardinality(S) + 1 } } :
                  S \in SUBSET (1..Len(rows)) }

\* c . y of vertex v, times its denominator
CostNum(c, v) == BigDot(c, v.num)

\* the vertices of V that minimise c . y
Minimizers(c, V) ==
    { v \in V : \A w \in V :
        BigLeq(BigMul(CostNum(c, v), ToBig(w.den)), BigMul(CostNum(c, w), ToBig(v.den))) }

---------------------------------------------------------------------------
(* AlternativeFuelOptimizer.optimize_fuel_mix *)

EmptyDict == [k \in {} |-> 0]

\* c = [cost_per_gj for f in fuels]
\* the objective read from the wrong key of the catalogue
Objective_HandlingCost == [i \in Idx |-> fuel_properties[Fuels[i]].handling_cost]

Objective == [i \in Idx |-> fuel_properties[Fuels[i]].cost_per_gj]

\* Constraint 3 with the caller's bound ignored
AshConstraint_DefaultOnly(quality) ==
    [row |-> [i \in Idx |-> fuel_properties[Fuels[i]].ash_content],
     rhs |-> constraints.max_ash_content]

\* Constraint 3: weighted ash <= quality_requirements.get('max_ash_content', default)
AshConstraint(quality) ==
    [row |-> [i \in Idx |-> fuel_properties[Fuels[i]].ash_content],
     rhs |-> Get(quality, "max_ash_content", constraints.max_ash_content)]

\* Constraint 4: weighted moisture <= quality_requirements.get('max_moisture', default)
MoistureConstraint(quality) ==
    [row |-> [i \in Idx |-> fuel_properties[Fuels[i]].moisture],
     rhs |-> Get(quality, "max_moisture", constraints.max_moisture)]

\* the bound of constraint 5, in percent: self.constraints['max_alternative_fuel_rate']
\* whatever quality_requirements holds
AltFuelBound(quality) == constraints.max_alternative_fuel_rate

\* Constraint 5: sum of the non-coal fractions <= bound / 100, both sides
\* multiplied by the denominator of bound / 100 in lowest terms
AltFuelConstraint(quality) ==
    LET g == Gcd(AltFuelBound(quality), 100)
    IN  [row |-> [i \in Idx |-> IF Fuels[i] # "coal" THEN 100 \div g ELSE 0],
         rhs |-> AltFuelBound(quality) \div g]

\* Constraint 6: weighted co2 <= environmental_targets['max_co2_kg_per_gj']
Co2Constraint(env) ==
    [row |-> [i \in Idx |-> fuel_properties[Fuels[i]].co2_emission],
     rhs |-> env["max_co2_kg_per_gj"] * Co2Scale]

\* the rows of A_ub / b_ub that couple several fuels, in the order they are appended
CouplingRows(a) ==
    <<AshConstraint(a.quality), MoistureConstraint(a.quality), AltFuelConstraint(a.quality)>>
    \o (IF a.env # EmptyDict /\ "max_co2_kg_per_gj" \in DOMAIN a.env
        THEN <<Co2Constraint(a.env)>> ELSE <<>>)

\* energy units per unit fraction (1 when no energy is required: the rows vanish)
EnergyUnit(a) == IF a.energy > 0 THEN a.energy ELSE 1

\* Constraint 2 and the bounds (0, 1), in energy units: the row
\* total_energy_required * x[i] <= availability[fuel] of each listed fuel.
UpperBounds(a) ==
    [i \in Idx |->
        IF a.energy > 0 /\ Fuels[i] \in DOMAIN a.availability
        THEN Min(EnergyUnit(a), a.availability[Fuels[i]])
        ELSE EnergyUnit(a)]

\* with total_energy_required = 0 an availability row reads 0 <= availability[fuel]
ZeroRowsHold(a) ==
    a.energy = 0 => \A f \in DOMAIN a.availability : f \in FuelNames => a.availability[f] >= 0

\* result.x of a successful solve, as fractions n[i] / d in lowest terms
Fractions(a, v) ==
    LET dd == v.den * EnergyUnit(a)
        g  == Gcd(GcdTo(v.num, Len(Fuels)), dd)
    IN  [n |-> [i \in Idx |-> v.num[i] \div g], d |-> dd \div g]

\* the solutions linprog may return: the optimal vertices (none: infeasible)
Linprog(a) ==
    IF ~ZeroRowsHold(a) THEN {}
    ELSE { Fractions(a, v) :
             v \in Minimizers(Objective, Vertices(EnergyUnit(a), UpperBounds(a), CouplingRows(a))) }

\* fuel_mix = dict(zip(fuels, result.x)): the solver's floats, each the float
\* nearest to the exact share of the vertex
fuel_mix(x) == [i \in Idx |-> DOf(x.n[i], x.d)]

\* the threshold read as "at least 1 %"
Significant_AtLeast(x, i) == DLeq(DOf(1, 100), fuel_mix(x)[i])

\* fuel_mix entries reported, in 'optimal_mix' and in the plan: v > 0.01
Significant(x, i) == DLess(DOf(1, 100), fuel_mix(x)[i])

\* round(v * 100, 2), in hundredths of a percent
Percentage(v) == PyRound(DMul(v, DOfInt(100)), 100)

\* 'optimal_mix': {k: round(v * 100, 2) for k, v in fuel_mix.items() if v > 0.01},
\* in hundredths of a percent
OptimalMix(x) ==
    LET mix == fuel_mix(x)
    IN  [f \in {Fuels[i] : i \in {j \in Idx : Significant(x, j)}} |->
            Percentage(mix[CHOOSE j \in Idx : Fuels[j] = f])]

\* sum(v for k, v in fuel_mix.items() if k != 'coal') * 100, as a fraction num / den
AlternativeFuelRate(x) ==
    [num |-> 100 * SumFuels([i \in Idx |-> IF Fuels[i] # "coal" THEN x.n[i] ELSE 0]),
     den |-> x.d]

\* the decimal places fuel_properties above moves into the integer
PropertyScale(key) ==
    IF key = "co2_emission" THEN Co2Scale
    ELSE IF key \in {"cost_per_gj", "handling_cost", "calorific_value"} THEN 10
    ELSE 1

\* the properties of fuel f that the report reads, as the program holds them:
\* floats
FloatProperties(f) ==
    [calorific_value |->
         DOf(fuel_properties[f].calorific_value, PropertyScale("calorific_value")),
     ash_content |-> DOf(fuel_properties[f].ash_content, PropertyScale("ash_content")),
     moisture |-> DOf(fuel_properties[f].moisture, PropertyScale("moisture")),
     co2_emission |-> DOf(fuel_properties[f].co2_emission, PropertyScale("co2_emission"))]

float_properties ==
    [coal |-> FloatProperties("coal"), rice_husk |-> FloatProperties("rice_husk"),
     rdf |-> FloatProperties("rdf"), biomass |-> FloatProperties("biomass"),
     pet_coke |-> FloatProperties("pet_coke"), tyre_chips |-> FloatProperties("tyre_chips")]

RECURSIVE WeightedTo(_, _, _)
\* properties[key] after the fuels 1..n of fuel_mix: += fraction * property for
\* every fuel with fraction > 0, from 0
WeightedTo(mix, key, n) ==
    IF n = 0 THEN DZero
    ELSE IF DLess(DZero, mix[n])
         THEN DAdd(WeightedTo(mix, key, n - 1), DMul(mix[n], float_properties[Fuels[n]][key]))
         ELSE WeightedTo(mix, key, n - 1)

\* _calculate_mix_properties: the fraction-weighted property, every fuel with
\* fraction > 0 counted, then round(v, 2): in hundredths of the property's unit
WeightedProperty(x, key) == PyRound(WeightedTo(fuel_mix(x), key, Len(Fuels)), 100)

MixProperties(x) ==
    [weighted_calorific_value |-> WeightedProperty(x, "calorific_value"),
     weighted_ash_content     |-> WeightedProperty(x, "ash_content"),
     weighted_moisture        |-> WeightedProperty(x, "moisture"),
     weighted_co2_emission    |-> WeightedProperty(x, "co2_emission")]

\* _generate_implementation_plan: one entry per fuel with fraction > 0.01, in
\* catalogue order, with 'percentage': round(fraction * 100, 2) (in hundredths
\* of a percent)
ImplementationPlan(x) ==
    LET sig == SortedSeq({i \in Idx : Significant(x, i)})
        mix == fuel_mix(x)
    IN  [k \in 1..Len(sig) |->
            [fuel |-> Fuels[sig[k]], percentage |-> Percentage(mix[sig[k]])]]

NoMix == [n |-> [i \in Idx |-> 0], d |-> 1]

\* optimized_cost = result.fun * total_energy_required, in USD per hour as the
\* fraction <<numerator, denominator>>; << >> is NaN, the product by a NaN
\* total_energy_required
TotalCostPerHour(a, x) ==
    IF a.malformed = "energy_is_nan" THEN <<>>
    ELSE <<Dot(Objective, x.n) * a.energy, 10 * x.d>>

\* the dictionary returned on success (the keys the model follows)
Success(a, x) ==
    [success |-> TRUE, error |-> "", x |-> x,
     optimal_mix |-> OptimalMix(x),
     mix_properties |-> MixProperties(x),
     alternative_fuel_rate |-> AlternativeFuelRate(x),
     implementation_plan |-> ImplementationPlan(x),
     fun |-> [num |-> Dot(Objective, x.n), den |-> x.d],
     total_cost_per_hour |-> TotalCostPerHour(a, x)]

\* the dictionary returned when the solver fails or an exception is caught
Failure(reason) ==
    [success |-> FALSE, error |-> reason, x |-> NoMix,
     optimal_mix |-> EmptyDict,
     mix_properties |-> [weighted_calorific_value |-> 0, weighted_ash_content |-> 0,
                         weighted_moisture |-> 0, weighted_co2_emission |-> 0],
     alternative_fuel_rate |-> [num |-> 0, den |-> 1],
     implementation_plan |-> <<>>,
     fun |-> [num |-> 0, den |-> 1],
     total_cost_per_hour |-> <<0, 1>>]

\* Arguments that make a step of the handler raise.  "availability_is_None":
\* `fuel in availability_constraints` raises TypeError while the rows are built;
\* "quality_is_None": quality_requirements.get raises AttributeError there;
\* "energy_is_nan": total_energy_required is float('nan') (the field energy is
\* then 0), which linprog meets in A_ub when an availability row was built.
Malformations == {"no", "availability_is_None", "quality_is_None", "energy_is_nan"}

\* the handler's steps: rows built (lines 97-144), linprog called, result reported
BuildRaises(a) == a.malformed \in {"availability_is_None", "quality_is_None"}

\* linprog raises ValueError on a NaN entry of A_ub: the availability row of a
\* catalogue fuel, constraint_row[i] = total_energy_required, is the one place
\* where total_energy_required enters the program
SolverRaises(a) ==
    /\ a.malformed = "energy_is_nan"
    /\ \E f \in FuelNames : f \in DOMAIN a.availability

\* try: ... except Exception encloses the linprog call and the reporting,
\* not the building of the rows
TryCovers(step) == step \in {"solve", "report"}

\* the results the try block can return: the except clause's dictionary, the
\* solver's failure, or the report of an optimal vertex
Results(a) ==
    LET sol == Linprog(a)
    IN  IF SolverRaises(a) THEN {Failure("exception")}
        ELSE IF sol = {} THEN {Failure("Optimization failed")}
        ELSE {Success(a, x) : x \in sol}

---------------------------------------------------------------------------
(* The calls made *)

\* coal's availability as the callers pass it: 'coal': 1000000  # Unlimited
Unlimited == 1000000

\* total_energy_required: none, a quarter of the largest, the largest
Energies == {0, MaxEnergy \div 4, MaxEnergy}

\* availability_constraints: nothing listed; coal alone; coal and two alternative
\* fuels; coal and the same availability for every alternative fuel
Availabilities ==
    {EmptyDict}
    \cup [{"coal"} -> {0, Unlimited}]
    \cup [coal : {Unlimited}, rdf : {0, 1, 2}, tyre_chips : {0, 1, 2}]
    \cup { [f \in FuelNames |-> IF f = "coal" THEN c ELSE v] :
             c \in {0, Unlimited}, v \in {0, 1} }

\* quality_requirements: empty (the defaults apply); the pre-calciner's bounds;
\* a caller asking for no alternative fuel; a caller asking for at most 20 %
\* next to the default bounds; an ash bound below coal's ash content
Qualities ==
    { EmptyDict,
      ("max_ash_content" :> 12) @@ ("max_moisture" :> 10),
      ("max_alternative_fuel_rate" :> 0),
      ("max_ash_content" :> 15) @@ ("max_moisture" :> 12) @@ ("max_alternative_fuel_rate" :> 20),
      ("max_ash_content" :> 10) }

\* environmental_targets: None
Environments == {EmptyDict}

\* environmental_targets with a CO2 bound, in kg CO2 per GJ: one no mix meets,
\* one below what half coal allows, one that binds, the pre-calciner agent's 75
Co2Targets == {("max_co2_kg_per_gj" :> c) : c \in {0, 40, 50, 75}}

WellFormedCalls ==
    [energy : Energies, malformed : {"no"}, availability : Availabilities,
     quality : Qualities, env : Environments]

\* None for a dictionary; a NaN energy demand, with no availability row and
\* with coal's
MalformedCalls ==
    [energy : {0}, malformed : {"availability_is_None", "quality_is_None"},
     availability : {EmptyDict}, quality : {EmptyDict}, env : {EmptyDict}]
    \cup [energy : {0}, malformed : {"energy_is_nan"},
          availability : {EmptyDict, [coal |-> Unlimited]},
          quality : {EmptyDict}, env : {EmptyDict}]

\* the calls that carry a CO2 bound: the pre-calciner agent's (50 GJ/h, ash 12,
\* moisture 10, 75 kg/GJ) and its variations
Co2Calls ==
    [energy : {MaxEnergy \div 4}, malformed : {"no"},
     availability : {EmptyDict, [coal |-> Unlimited, rdf |-> 2, tyre_chips |-> 1]},
     quality : {EmptyDict, ("max_ash_content" :> 12) @@ ("max_moisture" :> 10)},
     env : Co2Targets]

\* seasonal_fuel_planning: the share of each fuel's supply available in each
\* quarter, in tenths
seasonal_availability ==
    [Q1 |-> [rice_husk |-> 4, biomass |-> 3, rdf |-> 10, coal |-> 10],
     Q2 |-> [rice_husk |-> 1, biomass |-> 2, rdf |-> 10, coal |-> 10],
     Q3 |-> [rice_husk |-> 2, biomass |-> 4, rdf |-> 10, coal |-> 10],
     Q4 |-> [rice_husk |-> 3, biomass |-> 1, rdf |-> 10, coal |-> 10]]

\* annual_demand of seasonal_fuel_planning, in GJ: a quarter has 90 * 24 hours
AnnualDemands == {4 * 90 * 24 * (MaxEnergy \div 4)}

\* the call seasonal_fuel_planning makes for each quarter:
\* optimize_fuel_mix(quarterly_energy / (90 * 24), {k: v * 1000}, self.constraints)
SeasonalCalls ==
    { [energy |-> (d \div 4) \div (90 * 24), malformed |-> "no",
       availability |-> [f \in DOMAIN seasonal_availability[q] |->
                            seasonal_availability[q][f] * 100],
       quality |-> constraints, env |-> EmptyDict] :
      d \in AnnualDemands, q \in DOMAIN seasonal_availability }

Calls == WellFormedCalls \cup MalformedCalls \cup Co2Calls \cup SeasonalCalls

\* POST /api/optimization/fuel-mix: total_energy (default 200) and max_co2
\* (default None); rice_husk and biomass are the fuels of the public data that
\* the catalogue knows, their availability drawn between 1000 and 5000 tonnes
\* and between 1500 and 6000.  An Optional value is a sequence: << >> is None,
\* <<v>> the value v.
Requests ==
    [total_energy : {MaxEnergy}, max_co2 : {<<>>, <<0>>, <<50>>, <<75>>},
     rice_husk : {1000, 5000}, biomass : {1500, 6000}]

NoRequest == [total_energy |-> 0, max_co2 |-> <<>>, rice_husk |-> 0, biomass |-> 0]

\* Python's truth value of max_co2: None and 0 are false
Truthy(v) == v # <<>> /\ v[1] # 0

\* the arguments the endpoint passes on
EndpointArgs(r) ==
    [energy |-> r.total_energy, malformed |-> "no",
     availability |-> [rice_husk |-> r.rice_husk, agricultural_waste |-> 2000,
                       municipal_waste |-> 3000, biomass |-> r.biomass,
                       coal |-> Unlimited],
     quality |-> ("max_ash_content" :> 15) @@ ("max_moisture" :> 12),
     env |-> IF Truthy(r.max_co2) THEN ("max_co2_kg_per_gj" :> r.max_co2[1]) ELSE EmptyDict]

NoCall == [energy |-> 0, malformed |-> "no", availability |-> EmptyDict,
           quality |-> EmptyDict, env |-> EmptyDict]

---------------------------------------------------------------------------
(* The state machine.  A call of optimize_fuel_mix takes two steps: the rows *)
(* of the program are built from the arguments (before the try block), then *)
(* the program is solved and the result reported (inside it).               *)

\* `import app.services.alternative_fuel_optimizer` runs the class body, whose
\* annotations name typing.Any, which line 3 does not import: where annotations
\* are evaluated when the function is defined (Python up to 3.13) the import
\* raises NameError and the optimizer of line 414 never exists; where they are
\* evaluated lazily (Python 3.14) the import succeeds
ImportOutcomes == {"idle", "NameError"}

\* the additions builtin sum() may perform in an interpreter in which the
\* import ended as it did: one that evaluates the annotations lazily is
\* Python 3.14, whose sum compensates; one that raised is any Python up to 3.13
SummationsOf(outcome) == IF outcome = "NameError" THEN Summations ELSE {"compensated"}

\* a call finds that sum() adds by `mode`: one of the additions of the
\* interpreter, the same in every call of a run
Sums(mode) ==
    /\ mode \in SummationsOf(pc)
    /\ summation \in {"unobserved", mode}
    /\ summation' = mode

InitFuel ==
    /\ args = NoCall
    /\ result = Failure("no call")
    /\ pc \in ImportOutcomes
    /\ request = NoRequest

\* optimize_fuel_mix(a.energy, a.availability, a.quality, a.env) is called by a
\* caller that holds no result, and builds c, A_ub, b_ub, A_eq, b_eq, bounds
OptimizeFuelMix_Build(a) ==
    /\ pc = "idle"
    /\ UNCHANGED <<searchVars, serviceVars, chemVars, carbonVars, callVars>>
    /\ args' = a
    /\ UNCHANGED request
    /\ IF BuildRaises(a)
       THEN IF TryCovers("build")
            THEN pc' = "returned" /\ result' = Failure("exception")
            ELSE pc' = "raised" /\ UNCHANGED result
       ELSE pc' = "built" /\ UNCHANGED result

\* the try block: linprog is called and the result dictionary returned
OptimizeFuelMix_Solve ==
    /\ pc = "built"
    /\ UNCHANGED <<searchVars, serviceVars, chemVars, carbonVars, callVars>>
    /\ UNCHANGED <<args, request>>
    /\ IF SolverRaises(args) /\ ~TryCovers("solve")
       THEN pc' = "raised" /\ UNCHANGED result
       ELSE pc' = "returned" /\ result' \in Results(args)

\* the caller is done with the result (or the exception): the optimizer keeps
\* nothing of a call, the next one starts from the same state
Done ==
    /\ pc \in {"returned", "raised"}
    /\ UNCHANGED <<searchVars, serviceVars, chemVars, carbonVars, callVars>>
    /\ pc' = "idle"
    /\ args' = NoCall
    /\ result' = Failure("no call")
    /\ request' = NoRequest

\* the endpoint optimize_fuel_mix of main.py: it draws the availabilities, fixes
\* the quality requirements, turns max_co2 into environmental_targets and calls
\* alternative_fuel_optimizer.optimize_fuel_mix, whose rows are then built
Endpoint_OptimizeFuelMix(r) ==
    /\ pc = "idle"
    /\ UNCHANGED <<searchVars, serviceVars, chemVars, carbonVars, callVars>>
    /\ request' = r
    /\ args' = EndpointArgs(r)
    /\ pc' = "built"
    /\ UNCHANGED result

Next ==
    \/ \E a \in Calls : OptimizeFuelMix_Build(a)
    \/ \E r \in Requests : Endpoint_OptimizeFuelMix(r)
    \/ OptimizeFuelMix_Solve
    \/ Done

---------------------------------------------------------------------------
(* Properties of optimize_fuel_mix *)

\* the last call was well formed and returned
Returned == pc = "returned" /\ args.malformed = "no"

\* ... with success = True
Succeeded == Returned /\ result.success

\* index of a fuel name
IndexOf(f) == CHOOSE i \in Idx : Fuels[i] = f

\* sum of the percentages reported in 'optimal_mix', in hundredths of a percent
ReportedSum(r) ==
    SumFuels([i \in Idx |->
        IF Fuels[i] \in DOMAIN r.optimal_mix THEN r.optimal_mix[Fuels[i]] ELSE 0])

\* the mix is coal and nothing else
CoalAlone(x) == x.n[IndexOf("coal")] = x.d

\* some fuel has a positive share of at most 1 %
HasNegligibleFuel(x) == \E i \in Idx : 0 < x.n[i] /\ 100 * x.n[i] <= x.d

\* C1 as stated: the fractions reported in 'optimal_mix' (percentages / 100) of a
\* successful result sum to 1 within 1e-6.  The percentages are multiples of
\* 0.01, so the sum is within 1e-6 of 1 only when it is exactly 100.00.
C1_ReportedFractionsSumToOne == Succeeded => ReportedSum(result) = 10000

\* C1 amended: in every successful result the solved fractions of all six fuels,
\* those omitted from 'optimal_mix' included, sum to exactly 1, and the reported
\* percentages sum to 100.00 unless a fuel with a share of at most 1 % was
\* omitted or a share is not a whole number of hundredths of a percent.
C1_SolvedFractionsSumToOne ==
    Succeeded =>
        /\ SumFuels(result.x.n) = result.x.d
        /\ \A i \in Idx : result.x.n[i] >= 0
        /\ ( /\ ~HasNegligibleFuel(result.x)
             /\ \A i \in Idx : (result.x.n[i] * 10000) % result.x.d = 0 )
           => ReportedSum(result) = 10000

\* a successful result that omits a fuel with a positive share: reported sum < 100
C1_Witness ==
    /\ Succeeded
    /\ HasNegligibleFuel(result.x)
    /\ ReportedSum(result) < 10000

\* the quality bounds in force: the caller's value when given, else the default
AshBound(a) ==
    IF "max_ash_content" \in DOMAIN a.quality THEN a.quality["max_ash_content"] ELSE 15

MoistureBound(a) ==
    IF "max_moisture" \in DOMAIN a.quality THEN a.quality["max_moisture"] ELSE 12

\* fraction-weighted property of the solved mix, times the denominator x.d
Weighted(x, key) == SumFuels([i \in Idx |-> x.n[i] * fuel_properties[Fuels[i]][key]])

\* C2: in every successful result the fraction-weighted ash content is at most
\* the max-ash bound, the fraction-weighted moisture at most the max-moisture
\* bound (the caller's value when given, otherwise 15 and 12), and the fraction
\* of every fuel listed in the availability map is at most
\* availability[fuel] / total_energy_required (and at most 1).
C2_BoundsRespected ==
    Succeeded =>
        /\ Weighted(result.x, "ash_content") <= AshBound(args) * result.x.d
        /\ Weighted(result.x, "moisture") <= MoistureBound(args) * result.x.d
        /\ \A f \in DOMAIN args.availability \cap FuelNames :
             args.energy > 0 =>
                result.x.n[IndexOf(f)] * args.energy
                    <= Min(args.availability[f], args.energy) * result.x.d

\* a successful result whose ash content sits exactly on the caller's bound and
\* in which a listed fuel is used up to its availability
C2_Witness ==
    /\ Succeeded
    /\ "max_ash_content" \in DOMAIN args.quality
    /\ Weighted(result.x, "ash_content") = AshBound(args) * result.x.d
    /\ \E f \in DOMAIN args.availability \cap FuelNames :
          /\ 0 < args.availability[f] /\ args.availability[f] < args.energy
          /\ result.x.n[IndexOf(f)] * args.energy = args.availability[f] * result.x.d

\* C3 as stated: optimize_fuel_mix never propagates an exception to its caller,
\* whatever fails while the program is built or solved.
C3_NeverRaises == pc # "raised"

\* an all-coal mix satisfies the quality bounds and the co2 bound in force
CoalAdmissible(a) ==
    /\ fuel_properties.coal.ash_content <= AshBound(a)
    /\ fuel_properties.coal.moisture <= MoistureBound(a)
    /\ "max_co2_kg_per_gj" \in DOMAIN a.env
          => fuel_properties.coal.co2_emission <= a.env["max_co2_kg_per_gj"] * Co2Scale

AlternativeNames == FuelNames \ {"coal"}

\* every non-baseline fuel is listed with availability 0
AllAlternativesZero(a) ==
    \A f \in AlternativeNames : f \in DOMAIN a.availability /\ a.availability[f] = 0

\* coal is not listed, or listed with at least the energy required
CoalUnlimited(a) ==
    "coal" \notin DOMAIN a.availability \/ a.availability["coal"] >= a.energy

\* coal is listed with 0 and the other fuels are all listed, with less than the
\* energy required in total
OnlyScarceAlternatives(a) ==
    /\ "coal" \in DOMAIN a.availability /\ a.availability["coal"] = 0
    /\ AlternativeNames \subseteq DOMAIN a.availability
    /\ SumFuels([i \in Idx |->
          IF Fuels[i] = "coal" THEN 0 ELSE a.availability[Fuels[i]]]) < a.energy

\* C4 as stated: with every non-baseline availability 0 and coal unlimited the
\* call succeeds, with coal alone; with coal's availability 0 and the others
\* summing to less than the energy required it returns success = False.
C4_InfeasibilityDetection ==
    Returned =>
        /\ (AllAlternativesZero(args) /\ CoalUnlimited(args))
              => (result.success /\ CoalAlone(result.x))
        /\ OnlyScarceAlternatives(args) => ~result.success

\* what the code does guarantee of the two cases of C4: they come out as stated
\* when energy is required and an all-coal mix satisfies the bounds in force
C4_InfeasibilityDetectionOfAdmissibleDemand ==
    (Returned /\ args.energy > 0) =>
        /\ (AllAlternativesZero(args) /\ CoalUnlimited(args) /\ CoalAdmissible(args))
              => (result.success /\ CoalAlone(result.x))
        /\ OnlyScarceAlternatives(args) => ~result.success

\* C5 as stated: with total_energy_required = 0 the call succeeds and returns
\* an all-zero mix: no fuel has a positive fraction.
C5_ZeroEnergyAllZeroMix ==
    (Returned /\ args.energy = 0) =>
        (result.success /\ \A i \in Idx : result.x.n[i] = 0)

\* C6 as stated: in every successful result, for every total_energy_required,
\* a fuel whose availability is 0 has fraction 0.
C6_ZeroAvailabilityExcluded ==
    Succeeded =>
        \A f \in DOMAIN args.availability \cap FuelNames :
            args.availability[f] = 0 => result.x.n[IndexOf(f)] = 0

\* least common multiple of the calorific values (in tenths of a GJ/tonne)
RECURSIVE CalorificLcmTo(_)
CalorificLcmTo(n) ==
    IF n = 0 THEN 1
    ELSE LET cv == fuel_properties[Fuels[n]].calorific_value
             l  == CalorificLcmTo(n - 1)
         IN  (l \div Gcd(l, cv)) * cv

CalorificLcm == CalorificLcmTo(Len(Fuels))

\* cost per unit energy + handling cost per unit energy of fuel i, in USD/GJ
\* times 10 * CalorificLcm: cost_per_gj is USD/GJ; handling_cost is USD/tonne
\* and calorific_value GJ/tonne, so handling costs
\* handling_cost / calorific_value per GJ
TotalCost(i) ==
    LET p == fuel_properties[Fuels[i]]
    IN  BigAdd(BigScale(ToBig(CalorificLcm), p.cost_per_gj),
               ToBig(10 * p.handling_cost * (CalorificLcm \div p.calorific_value)))

\* sum fraction * (cost + handling cost) of mix x, times x.d * 10 * CalorificLcm
RECURSIVE MixCostTo(_, _)
MixCostTo(x, n) ==
    IF n = 0 THEN <<>>
    ELSE BigAdd(BigMul(TotalCost(n), ToBig(x.n[n])), MixCostTo(x, n - 1))

MixCost(x) == MixCostTo(x, Len(Fuels))

\* the feasible mixes that matter for a linear objective: the vertices of the
\* feasible region
FeasibleVertices(a) ==
    IF ~ZeroRowsHold(a) THEN {}
    ELSE { Fractions(a, v) :
             v \in Vertices(EnergyUnit(a), UpperBounds(a), CouplingRows(a)) }

\* C7: the mix of a successful result minimises
\* sum fraction * (cost per unit energy + handling cost per unit energy) over
\* the mixes that satisfy the constraints: no feasible mix (no vertex of the
\* feasible region, where a linear function takes its minimum) has a strictly
\* lower value.
C7_MinimizesCostPlusHandling ==
    Succeeded =>
        \A w \in FeasibleVertices(args) :
            BigLeq(BigMul(MixCost(result.x), ToBig(w.d)), BigMul(MixCost(w), ToBig(result.x.d)))

\* a successful result with a feasible mix that costs strictly more than the
\* returned one, and whose handling costs differ from it: the returned mix
\* uses a fuel the other does not
C7_Witness ==
    /\ Succeeded
    /\ \E w \in FeasibleVertices(args) :
          /\ ~BigLeq(BigMul(MixCost(w), ToBig(result.x.d)), BigMul(MixCost(result.x), ToBig(w.d)))
          /\ \E i \in Idx : result.x.n[i] > 0 /\ w.n[i] = 0
          /\ \E i \in Idx : result.x.n[i] = 0 /\ w.n[i] > 0

\* the alternative-fuel-rate bound the caller asks for, in percent: the value
\* supplied when one is given, the default 50 otherwise
RequestedAltBound(a) ==
    IF "max_alternative_fuel_rate" \in DOMAIN a.quality
    THEN a.quality["max_alternative_fuel_rate"] ELSE 50

\* total share of the non-coal fuels, times the denominator x.d
AlternativeShare(x) == SumFuels([i \in Idx |-> IF Fuels[i] = "coal" THEN 0 ELSE x.n[i]])

\* C8 as stated: a request with max alternative-fuel rate = 0 returns a mix
\* that is 100 % coal whenever an all-coal mix satisfies the bounds (and coal
\* is available for the whole demand).
C8_ZeroAllowanceAllCoal ==
    ( /\ Returned
      /\ "max_alternative_fuel_rate" \in DOMAIN args.quality
      /\ RequestedAltBound(args) = 0
      /\ CoalAdmissible(args) /\ CoalUnlimited(args) )
    => (result.success /\ CoalAlone(result.x))

\* C9 as stated: in every successful result the total fraction of non-coal
\* fuels is at most the maximum alternative-fuel-rate bound, the caller's value
\* when one is given and 50 % otherwise.
C9_AltRateWithinRequestedBound ==
    Succeeded => 100 * AlternativeShare(result.x) <= RequestedAltBound(args) * result.x.d

\* r hundredths is num / den rounded to two decimals: the multiple of 0.01
\* nearest to it, either neighbour when num / den lies halfway
RoundedToHundredths(r, num, den) == Abs(r * den - 100 * num) <= den \div 2

\* the key of mix_properties that holds the weighted property
WeightedKey(key) ==
    CASE key = "ash_content" -> "weighted_ash_content"
      [] key = "moisture" -> "weighted_moisture"
      [] key = "calorific_value" -> "weighted_calorific_value"
      [] key = "co2_emission" -> "weighted_co2_emission"

\* what C10 says of the fuels left out of 'optimal_mix': they still count in
\* alternative_fuel_rate and in the weighted mix properties; and the plan lists
\* the fuels 'optimal_mix' lists, with the same percentages
OmittedStillCounted(r) ==
    /\ r.alternative_fuel_rate.num * r.x.d
          = 100 * AlternativeShare(r.x) * r.alternative_fuel_rate.den
    /\ \A key \in {"ash_content", "moisture", "calorific_value", "co2_emission"} :
          RoundedToHundredths(r.mix_properties[WeightedKey(key)],
                              Weighted(r.x, key), r.x.d * PropertyScale(key))
    /\ {r.implementation_plan[k].fuel : k \in 1..Len(r.implementation_plan)}
          = DOMAIN r.optimal_mix
    /\ \A k \in 1..Len(r.implementation_plan) :
          r.implementation_plan[k].percentage
             = r.optimal_mix[r.implementation_plan[k].fuel]

\* C10 as stated: 'optimal_mix' holds exactly the fuels whose solved share is
\* at least 1 %; omitted fuels still count in the rate and the properties.
C10_ReportedIffAtLeastOnePercent ==
    Succeeded =>
        /\ DOMAIN result.optimal_mix
              = {Fuels[i] : i \in {j \in Idx : 100 * result.x.n[j] >= result.x.d}}
        /\ OmittedStillCounted(result)

\* C10 amended: 'optimal_mix' holds exactly the fuels whose solved share is
\* strictly above 1 %, each with its share rounded to 0.01 %; a fuel with a
\* share of exactly 1 % or less is omitted; omitted fuels still count in
\* alternative_fuel_rate and in the weighted mix properties.
C10_ReportedIffAboveOnePercent ==
    Succeeded =>
        /\ DOMAIN result.optimal_mix
              = {Fuels[i] : i \in {j \in Idx : 100 * result.x.n[j] > result.x.d}}
        /\ \A f \in DOMAIN result.optimal_mix :
              RoundedToHundredths(result.optimal_mix[f],
                                  100 * result.x.n[IndexOf(f)], result.x.d)
        /\ OmittedStillCounted(result)

\* a successful result in which an alternative fuel with a share of exactly 1 %
\* is left out of 'optimal_mix' while alternative_fuel_rate counts it
C10_Witness ==
    /\ Succeeded
    /\ \E i \in Idx :
          /\ Fuels[i] # "coal"
          /\ 100 * result.x.n[i] = result.x.d
          /\ Fuels[i] \notin DOMAIN result.optimal_mix
    /\ 100 * result.alternative_fuel_rate.num
          > result.alternative_fuel_rate.den
              * SumFuels([i \in Idx |->
                   IF Fuels[i] # "coal" /\ Fuels[i] \in DOMAIN result.optimal_mix
                   THEN result.optimal_mix[Fuels[i]] ELSE 0])

\* the CO2 bound the caller supplies, in kg CO2 per GJ (<< >>: none): max_co2
\* of a request to the endpoint, environmental_targets['max_co2_kg_per_gj'] of a
\* direct call
SuppliedCo2Bound ==
    IF request # NoRequest THEN request.max_co2
    ELSE IF "max_co2_kg_per_gj" \in DOMAIN args.env THEN <<args.env["max_co2_kg_per_gj"]>>
    ELSE <<>>

\* C11 as stated: whenever the caller supplies a CO2 bound, whatever its value,
\* a successful result has fraction-weighted CO2 intensity at most that bound.
C11_Co2WithinSuppliedBound ==
    (Succeeded /\ SuppliedCo2Bound # <<>>) =>
        Weighted(result.x, "co2_emission") <= SuppliedCo2Bound[1] * Co2Scale * result.x.d

\* C11 for the bounds that reach the program: when environmental_targets holds
\* a CO2 bound, a successful result has CO2 intensity at most that bound.
C11_Co2WithinProgramBound ==
    (Succeeded /\ "max_co2_kg_per_gj" \in DOMAIN args.env) =>
        Weighted(result.x, "co2_emission")
            <= args.env["max_co2_kg_per_gj"] * Co2Scale * result.x.d

\* the seasonal multiplier of fuel f in quarter q, in tenths: 1.0 when the
\* quarter has no entry for the fuel
SeasonalMultiplier(q, f) ==
    IF f \in DOMAIN seasonal_availability[q] THEN seasonal_availability[q][f] ELSE 10

\* C12 as stated, in its most generous reading: a tier lets a fuel take at most
\* the whole mix, so in a successful result every fuel's fraction is at most
\* its seasonal multiplier of the current period, whichever period that is.
C12_WithinTierAndSeasonCeiling ==
    Succeeded =>
        \E q \in DOMAIN seasonal_availability :
            \A i \in Idx : 10 * result.x.n[i] <= SeasonalMultiplier(q, Fuels[i]) * result.x.d

---------------------------------------------------------------------------
(* Part 2: BayesianOptimizer and ProcessOptimizer                          *)
(* (physics_informed_models.py), the surrogate-guided parameter search.    *)
(*                                                                         *)
(* A float is an exact fraction <<numerator, denominator>> with a positive *)
(* denominator, in lowest terms; NaN is the empty tuple.  The coordinates  *)
(* of a parameter vector are integers.                                     *)

\* number of observations the history of a run grows to
MaxObservations == 6

\* restarts of the acquisition maximisation that are followed (the loop of
\* suggest_next_point runs range(100))
Restarts == 2

NaN == <<>>

IsNaN(v) == v = NaN

Frac(n, d) ==
    LET g == Gcd(n, d)
    IN  IF d < 0 THEN <<(0 - n) \div g, (0 - d) \div g>> ELSE <<n \div g, d \div g>>

Whole(n) == <<n, 1>>

FAdd(a, b) ==
    LET l == (a[2] \div Gcd(a[2], b[2])) * b[2]
    IN  Frac(a[1] * (l \div a[2]) + b[1] * (l \div b[2]), l)

FNeg(a) == <<0 - a[1], a[2]>>

FSub(a, b) == FAdd(a, FNeg(b))

FMul(a, b) ==
    LET g == Gcd(a[1], b[2])
        h == Gcd(b[1], a[2])
    IN  Frac((a[1] \div g) * (b[1] \div h), (a[2] \div h) * (b[2] \div g))

\* a / b for b # 0
FDiv(a, b) == FMul(a, Frac(b[2], b[1]))

FAbs(a) == <<Abs(a[1]), a[2]>>

FLeq(a, b) == a[1] * b[2] <= b[1] * a[2]

FLess(a, b) == a[1] * b[2] < b[1] * a[2]

FMin(a, b) == IF FLeq(a, b) THEN a ELSE b

\* ProcessOptimizer.bounds, handed to BayesianOptimizer.__init__ as bounds
bounds ==
    [kiln_temperature |-> <<1350, 1500>>,
     kiln_speed       |-> <<3, 5>>,
     fuel_rate        |-> <<8, 15>>,
     air_flow         |-> <<50, 120>>,
     residence_time   |-> <<25, 35>>,
     feed_rate        |-> <<250, 350>>]

\* self.param_names = list(bounds.keys())
param_names ==
    <<"kiln_temperature", "kiln_speed", "fuel_rate", "air_flow", "residence_time",
      "feed_rate">>

ParamNames == {param_names[i] : i \in 1..Len(param_names)}

\* self.bounds_array[:, 0] and self.bounds_array[:, 1]
LowCorner == [n \in ParamNames |-> bounds[n][1]]

HighCorner == [n \in ParamNames |-> bounds[n][2]]

\* a point inside the box, and one step outside of it on either side
Centre ==
    [kiln_temperature |-> 1450, kiln_speed |-> 4, fuel_rate |-> 10, air_flow |-> 100,
     residence_time |-> 30, feed_rate |-> 300]

BelowBox == [n \in ParamNames |-> bounds[n][1] - 1]

AboveBox == [n \in ParamNames |-> bounds[n][2] + 1]

InBounds(point) ==
    /\ DOMAIN point = ParamNames
    /\ \A n \in ParamNames : bounds[n][1] <= point[n] /\ point[n] <= bounds[n][2]

\* np.random.uniform(low, high): the half-open box [low, high), sampled here at
\* its low corner and at an interior point
Uniform_Widened(low, high) == {BelowBox, low, Centre}

Uniform(low, high) == {low, Centre}

\* without the bounds the iterate stays where the descent put it
Project_Unbounded(x) == x

\* L-BFGS-B with bounds=self.bounds_array keeps every iterate in the box by
\* projecting it: each coordinate is clipped to [low, high]
Project(x) ==
    [n \in ParamNames |->
        IF x[n] < bounds[n][1] THEN bounds[n][1]
        ELSE IF x[n] > bounds[n][2] THEN bounds[n][2] ELSE x[n]]

\* where the unprojected descent from a start point may end
Descents(x0) == {x0, BelowBox, Centre, AboveBox}

\* values the expected improvement takes at a point of a fitted surrogate
\* (it is never negative, and 0 where sigma is 0)
Improvements == {Whole(0), Frac(1, 100)}

\* what acquisition_function returns at x; with a finite history the fitted
\* surrogate predicts finite mu and sigma and the value is a number
acquisition_function(x) == Improvements

\* minimize(lambda x: -acquisition_function(x), x0, bounds=..., method='L-BFGS-B'):
\* the possible results, as records of res.x and -res.fun
minimize(x0) ==
    UNION {{[x |-> Project(d), ei |-> e] : e \in acquisition_function(Project(d))} :
              d \in Descents(x0)}

\* -np.inf
MinusInf == <<-1, 0>>

\* a > b as numpy compares floats: False when either side is NaN
Greater(a, b) ==
    IF IsNaN(a) \/ IsNaN(b) THEN FALSE
    ELSE IF b = MinusInf THEN a # MinusInf
    ELSE IF a = MinusInf THEN FALSE
    ELSE FLess(b, a)

NoPoint == [n \in {} |-> 0]

\* the restart loop: best_ei = -np.inf, best_point = None, and a restart
\* replaces them when -res.fun > best_ei
RECURSIVE BestRestart(_, _, _)
BestRestart(runs, best_ei, best_point) ==
    IF runs = <<>> THEN best_point
    ELSE IF Greater(runs[1].ei, best_ei)
         THEN BestRestart(Tail(runs), runs[1].ei, runs[1].x)
         ELSE BestRestart(Tail(runs), best_ei, best_point)

\* one run of the restart loop: the start points drawn and the results got
RestartRuns ==
    UNION {[1..Restarts -> minimize(x0)] : x0 \in Uniform(LowCorner, HighCorner)}

\* self.gp.fit(np.array(X), np.array(y)) validates its input and raises
\* ValueError when an entry is not finite
FitRaises(X, y) == \E i \in 1..Len(y) : IsNaN(y[i])

\* if len(self.X_observed) < 5
WarmUp == 5

\* the branch of suggest_next_point taken on a history: random exploration
\* up to and including the threshold
ColdStart_AtMost(X) == Len(X) <= WarmUp

\* the branch of suggest_next_point taken on a history: random exploration
\* below the threshold
ColdStart(X) == Len(X) < WarmUp

\* GaussianProcessRegressor(...) as __init__ builds it: fitted on nothing
NoFit == [fitted |-> FALSE, X |-> <<>>, y |-> <<>>]

\* a fit that leaves out the newest observation
gp_fit_Stale(model, X, y) ==
    IF FitRaises(X, y) THEN model
    ELSE [fitted |-> TRUE, X |-> SubSeq(X, 1, Len(X) - 1), y |-> SubSeq(y, 1, Len(y) - 1)]

\* self.gp.fit(np.array(self.X_observed), np.array(self.y_observed)): the
\* surrogate holds the data it was given, or stays as it was when fit raises
gp_fit(model, X, y) ==
    IF FitRaises(X, y) THEN model ELSE [fitted |-> TRUE, X |-> X, y |-> y]

\* self.gp after suggest_next_point() on a history
gp_after_suggest(model, X, y) == IF ColdStart(X) THEN model ELSE gp_fit(model, X, y)

\* outcomes of suggest_next_point; phase names the branch that was taken
Suggested(point, phase) ==
    [status |-> "returned", point |-> point, error |-> "", phase |-> phase]

SuggestRaised(error) ==
    [status |-> "raised", point |-> NoPoint, error |-> error, phase |-> "guided"]

NoSuggestion == [status |-> "none", point |-> NoPoint, error |-> "", phase |-> "none"]

\* suggest_next_point(): every outcome the call can have on a history.
\* dict(zip(self.param_names, point)) raises TypeError when point is None.
suggest_next_point(X, y) ==
    IF ColdStart(X)
    THEN {Suggested(point, "random") : point \in Uniform(LowCorner, HighCorner)}
    ELSE IF FitRaises(X, y)
         THEN {SuggestRaised("ValueError")}
         ELSE {LET point == BestRestart(runs, MinusInf, NoPoint)
               IN  IF point = NoPoint THEN SuggestRaised("TypeError")
                   ELSE Suggested(point, "guided") :
                   runs \in RestartRuns}

\* list.append
Appended_Replacing(list, item) == <<item>>

Appended(list, item) == Append(list, item)

\* np.max(self.y_observed): NaN as soon as one entry is NaN
RECURSIVE np_max(_)
np_max(y) ==
    IF Len(y) = 1 THEN y[1]
    ELSE LET rest == np_max(Tail(y))
         IN  IF IsNaN(y[1]) \/ IsNaN(rest) THEN NaN
             ELSE IF FLeq(rest, y[1]) THEN y[1] ELSE rest

Incumbent_Latest(y) == IF Len(y) > 0 THEN y[Len(y)] ELSE Whole(0)

\* incumbent of acquisition_function
Incumbent(y) == IF Len(y) > 0 THEN np_max(y) ELSE Whole(0)

---------------------------------------------------------------------------
(* ProcessOptimizer.objective_function and its three components *)

One == Whole(1)

\* _calculate_energy_efficiency(temp, fuel, air)
calculate_energy_efficiency(temp, fuel, air) ==
    LET temp_efficiency == FSub(One, FDiv(FAbs(FSub(temp, Whole(1450))), Whole(150)))
        fuel_efficiency == FSub(One, FDiv(FSub(fuel, Whole(8)), Whole(7)))
        air_fuel_ratio == FDiv(air, fuel)
        optimal_ratio == Whole(10)
        ratio_efficiency ==
            FSub(One, FDiv(FAbs(FSub(air_fuel_ratio, optimal_ratio)), optimal_ratio))
    IN  FDiv(FAdd(FAdd(temp_efficiency, fuel_efficiency), ratio_efficiency), Whole(3))

\* _calculate_quality_score(temp, residence_time, kiln_speed)
calculate_quality_score(temp, residence_time, kiln_speed) ==
    LET temp_quality == FSub(One, FDiv(FAbs(FSub(temp, Whole(1450))), Whole(100)))
        time_quality == FSub(One, FDiv(FAbs(FSub(residence_time, Whole(30))), Whole(10)))
        speed_quality == FSub(One, FDiv(FAbs(FSub(kiln_speed, Whole(4))), Whole(2)))
    IN  FDiv(FAdd(FAdd(temp_quality, time_quality), speed_quality), Whole(3))

\* the loop of _calculate_environmental_score over alt_fuels.get('fuels', {})
RECURSIVE AltFuelPotential(_, _)
AltFuelPotential(fuels, names) ==
    IF names = {} THEN Whole(0)
    ELSE LET f == CHOOSE n \in names : TRUE
             rest == AltFuelPotential(fuels, names \ {f})
         IN  IF "availability_tonnes" \in DOMAIN fuels[f]
             THEN FAdd(rest, Frac(fuels[f].availability_tonnes, 1000))
             ELSE rest

\* the environmental score without the cap of 0.5 on the reduction factor
calculate_environmental_score_NoCap(fuel_rate, alt_fuels) ==
    LET base_co2 == FMul(fuel_rate, Frac(946, 10))
        alt_fuel_potential ==
            IF DOMAIN alt_fuels # {}
            THEN LET fuels == Get(alt_fuels, "fuels", EmptyDict)
                 IN  AltFuelPotential(fuels, DOMAIN fuels)
            ELSE Whole(0)
        reduction_factor == FDiv(alt_fuel_potential, fuel_rate)
    IN  FSub(One, FDiv(FMul(base_co2, FSub(One, reduction_factor)),
                       FMul(fuel_rate, Whole(100))))

\* _calculate_environmental_score(fuel_rate, alt_fuels)
calculate_environmental_score(fuel_rate, alt_fuels) ==
    LET base_co2 == FMul(fuel_rate, Frac(946, 10))
        alt_fuel_potential ==
            IF DOMAIN alt_fuels # {}
            THEN LET fuels == Get(alt_fuels, "fuels", EmptyDict)
                 IN  AltFuelPotential(fuels, DOMAIN fuels)
            ELSE Whole(0)
        reduction_factor == FMin(Frac(1, 2), FDiv(alt_fuel_potential, fuel_rate))
    IN  FSub(One, FDiv(FMul(base_co2, FSub(One, reduction_factor)),
                       FMul(fuel_rate, Whole(100))))

\* the weather adjustment of objective_function
weather_penalty(public_data) ==
    IF "weather" \in DOMAIN public_data
    THEN FMul(FAbs(FSub(Whole(Get(public_data["weather"], "temperature", 25)), Whole(25))),
              Frac(1, 1000))
    ELSE Whole(0)

\* the three components objective_function computes before it combines them
objective_locals(params, public_data) ==
    [energy_eff |->
         calculate_energy_efficiency(Whole(params["kiln_temperature"]),
             Whole(params["fuel_rate"]), Whole(params["air_flow"])),
     quality_score |->
         calculate_quality_score(Whole(params["kiln_temperature"]),
             Whole(params["residence_time"]), Whole(params["kiln_speed"])),
     env_score |->
         calculate_environmental_score(Whole(params["fuel_rate"]),
             Get(public_data, "alternative_fuels", EmptyDict))]

NoLocals == [energy_eff |-> NaN, quality_score |-> NaN, env_score |-> NaN]

\* objective_function(params, public_data)
objective_function(params, public_data) ==
    LET locals == objective_locals(params, public_data)
    IN  FSub(FAdd(FAdd(FMul(Frac(4, 10), locals.energy_eff),
                       FMul(Frac(35, 100), locals.quality_score)),
                  FMul(Frac(25, 100), locals.env_score)),
             weather_penalty(public_data))

\* public data a request is scored with: nothing fetched, or a hot day with
\* 3000 + 2000 tonnes of alternative fuel on offer
PublicData ==
    {EmptyDict,
     [weather |-> [temperature |-> 35],
      alternative_fuels |->
          [fuels |-> [rice_husk |-> [availability_tonnes |-> 3000],
                      biomass   |-> [availability_tonnes |-> 2000]]]]}

\* what the fuel-availability source can report (tonnes, never negative):
\* no fuels, a fuel without a figure, nothing on offer, and far more than
\* the kiln can burn
FuelOffers ==
    {[alternative_fuels |-> EmptyDict],
     [alternative_fuels |-> [fuels |-> [rice_husk |-> [state |-> 1]]]],
     [alternative_fuels |-> [fuels |-> [rice_husk |-> [availability_tonnes |-> 0]]]],
     [weather |-> [temperature |-> 10],
      alternative_fuels |->
          [fuels |-> [rice_husk |-> [availability_tonnes |-> 12000],
                      biomass   |-> [availability_tonnes |-> 8000]]]]}

\* the corners of self.bounds, and the point in the middle
BoxPoints ==
    {[n \in ParamNames |-> bounds[n][side[n]]] : side \in [ParamNames -> {1, 2}]}
        \cup {Centre}

---------------------------------------------------------------------------
(* The search as a state machine: the calls a synchronous caller makes on   *)
(* the optimizer, one action per call.                                      *)

\* observations handed to update: a scored in-bounds point, a point whose
\* score is NaN, and an out-of-bounds point with a negative score
Observations ==
    {[params |-> Centre, objective_value |-> objective_function(Centre, EmptyDict)],
     [params |-> LowCorner, objective_value |-> NaN],
     [params |-> AboveBox, objective_value |-> Frac(-1, 2)]}

\* parameter vectors objective_function is called with
ScoredPoints == {Centre, LowCorner}

\* objective_function on each of these calls
Scores ==
    [params \in ScoredPoints \cup BoxPoints, public_data \in PublicData \cup FuelOffers |->
        [value |-> objective_function(params, public_data),
         locals |-> objective_locals(params, public_data)]]

NoScore ==
    [called |-> FALSE, params |-> NoPoint, public_data |-> EmptyDict, value |-> NaN,
     locals |-> NoLocals]

\* the record of a call of objective_function
Scored(params, public_data, scored) ==
    [called |-> TRUE, params |-> params, public_data |-> public_data, value |-> scored.value,
     locals |-> scored.locals]

\* X = np.array([params[name] for name in self.param_names])
AsArray(params) == [i \in 1..Len(param_names) |-> params[param_names[i]]]

InitSearch ==
    /\ bayesian_optimizer = "None"
    /\ X_observed = <<>>
    /\ y_observed = <<>>
    /\ gp = NoFit
    /\ suggestion = NoSuggestion
    /\ score = NoScore

\* BayesianOptimizer(self.bounds): an empty history
BayesianOptimizer_Init ==
    /\ running = 0
    /\ bayesian_optimizer = "None"
    /\ bayesian_optimizer' = "BayesianOptimizer"
    /\ X_observed' = <<>>
    /\ y_observed' = <<>>
    /\ gp' = NoFit
    /\ UNCHANGED <<suggestion, score, fuelVars, serviceVars, chemVars, carbonVars, callVars>>

\* bayesian_optimizer.update(params, objective_value)
Update(params, objective_value) ==
    /\ running = 0
    /\ bayesian_optimizer # "None"
    /\ Len(X_observed) < MaxObservations
    /\ X_observed' = Appended(X_observed, AsArray(params))
    /\ y_observed' = Appended(y_observed, objective_value)
    /\ UNCHANGED <<bayesian_optimizer, gp, suggestion, score, fuelVars, serviceVars,
                   chemVars, carbonVars, callVars>>

\* bayesian_optimizer.suggest_next_point()
SuggestNextPoint ==
    /\ running = 0
    /\ bayesian_optimizer # "None"
    /\ suggestion' \in suggest_next_point(X_observed, y_observed)
    /\ gp' = gp_after_suggest(gp, X_observed, y_observed)
    /\ UNCHANGED <<bayesian_optimizer, X_observed, y_observed, score, fuelVars,
                   serviceVars, chemVars, carbonVars, callVars>>

\* process_optimizer.objective_function(params, public_data)
ObjectiveFunction(params, public_data) ==
    /\ running = 0
    /\ score' = Scored(params, public_data, Scores[params, public_data])
    /\ UNCHANGED <<bayesian_optimizer, X_observed, y_observed, gp, suggestion, fuelVars,
                   serviceVars, chemVars, carbonVars, callVars>>

\* objective_function called on the corners of the box with every fuel offer
NextObjective ==
    \E params \in BoxPoints, public_data \in PublicData \cup FuelOffers :
        ObjectiveFunction(params, public_data)

NextSearch ==
    \/ BayesianOptimizer_Init
    \/ \E o \in Observations : Update(o.params, o.objective_value)
    \/ SuggestNextPoint
    \/ \E params \in ScoredPoints, public_data \in PublicData :
           ObjectiveFunction(params, public_data)


---------------------------------------------------------------------------
(* Part 3: coroutines of one event loop around the one shared               *)
(* process_optimizer: requests to the optimize_process endpoint (main.py)   *)
(* and coroutines that await process_optimizer.optimize_with_public_data,   *)
(* as analyze_with_public_data does (ai_agents.py line 108).  The loop runs *)
(* a coroutine until it awaits something that is not ready, and only then   *)
(* runs another.  running is the coroutine the loop is running.             *)

\* coroutines in flight at once
Clients == 2

Tasks == 1..Clients

\* public_data of a call: what aggregate_public_data returns, whose sources
\* sit under 'data_sources'
AggregatedData ==
    [plant_id |-> "plant", data_sources |-> [weather |-> [temperature |-> 35]]]

\* a current_params with three of the keys, as lines 310-320 of main.py build
\* one from sensor readings, or none
CurrentParams ==
    {NoPoint, [kiln_temperature |-> 1450, kiln_speed |-> 4, fuel_rate |-> 10]}

\* sensor readings handed to analyze_with_public_data, by sensor name
SensorReadings == {[burning_zone_temp |-> 1450, kiln_speed |-> 4]}

\* _extract_current_params(sensor_data): the mapped readings, and the default
\* of every parameter without a reading
extract_current_params(sensor_data) ==
    [kiln_temperature |-> Get(sensor_data, "burning_zone_temp", 1425),
     kiln_speed |-> Get(sensor_data, "kiln_speed", 4),
     fuel_rate |-> Get(sensor_data, "fuel_rate", 12),
     feed_rate |-> Get(sensor_data, "feed_rate", 300),
     air_flow |-> 85,
     residence_time |-> 30]

\* current_params of the calls awaited: those of analyze_with_public_data, and
\* those of a caller that passes none or a partial map
AwaitedParams ==
    CurrentParams \cup {extract_current_params(sensor_data) : sensor_data \in SensorReadings}

\* objective_function reads five parameters by key and raises KeyError when
\* one is missing
ObjectiveRaises(params) ==
    ~({"kiln_temperature", "fuel_rate", "air_flow", "residence_time", "kiln_speed"}
         \subseteq DOMAIN params)

IdleTask ==
    [pc |-> "idle", coroutine |-> "none", error |-> "", public_data |-> EmptyDict,
     params |-> NoPoint, value |-> NaN, seen |-> 0]

\* an await inside optimize_with_public_data, after the suggestion
AwaitPoints_AfterSuggest == {"suggested"}

\* positions inside optimize_with_public_data at which the coroutine awaits and
\* the loop may run another coroutine: the body has no await
AwaitPoints == {}

\* the loop is running coroutine t, or is free while t waits at an await
CanRun(t) == running = t \/ (running = 0 /\ tasks[t].pc \in AwaitPoints)

\* who runs once coroutine t has reached position pos
Yield(t, pos) == IF pos \in AwaitPoints THEN 0 ELSE t

\* optimize_process stopped by the name AsyncSessionLocal, which main.py uses
\* at line 305 and never imports
EndpointRaised ==
    [IdleTask EXCEPT !.pc = "raised", !.coroutine = "optimize_process",
                     !.error = "NameError"]

InitService ==
    /\ tasks = [t \in Tasks |-> IdleTask]
    /\ running = 0

\* POST /api/optimization/process arrives, main.py imported: with
\* include_public_data the coroutine runs up to the await of
\* aggregate_public_data and waits there; without, it runs on to line 305,
\* which raises NameError
Request(t, include_public_data) ==
    /\ pc # "NameError"
    /\ running = 0
    /\ tasks[t].pc = "idle"
    /\ tasks' = [tasks EXCEPT ![t] =
                    IF include_public_data
                    THEN [IdleTask EXCEPT !.pc = "awaiting", !.coroutine = "optimize_process"]
                    ELSE EndpointRaised]
    /\ UNCHANGED <<running, fuelVars, searchVars, chemVars, carbonVars, callVars>>

\* the awaited public data arrived: the loop resumes the request, which goes
\* on to line 305 and raises NameError; optimize_with_public_data is not called
Resume(t) ==
    /\ running = 0
    /\ tasks[t].pc = "awaiting"
    /\ tasks' = [tasks EXCEPT ![t] = EndpointRaised]
    /\ UNCHANGED <<running, fuelVars, searchVars, chemVars, carbonVars, callVars>>

\* a coroutine that will await process_optimizer.optimize_with_public_data is
\* handed to the loop, which has not run it yet.  The coroutine is
\* analyze_with_public_data of ai_agents.py, which imports the fuel optimizer
\* at line 10: where that import raises NameError the module, and with it the
\* coroutine, does not exist
Schedule(t) ==
    /\ pc # "NameError"
    /\ running = 0
    /\ tasks[t].pc = "idle"
    /\ tasks' = [tasks EXCEPT ![t] =
                    [IdleTask EXCEPT !.pc = "scheduled",
                                     !.coroutine = "optimize_with_public_data"]]
    /\ UNCHANGED <<running, fuelVars, searchVars, chemVars, carbonVars, callVars>>

\* the loop runs the coroutine, which enters
\* optimize_with_public_data(public_data, current_params); current_params is
\* first read at line 366, where Optimize_Update takes it
Enter(t, public_data) ==
    /\ running = 0
    /\ tasks[t].pc = "scheduled"
    /\ tasks' = [tasks EXCEPT ![t].pc = "entered", ![t].public_data = public_data]
    /\ running' = t
    /\ UNCHANGED <<fuelVars, searchVars, chemVars, carbonVars, callVars>>

\* optimize_with_public_data, lines 353-357: the optimizer is created if there
\* is none, and suggest_next_point is called on the history as it stands
Optimize_Suggest(t) ==
    /\ CanRun(t)
    /\ tasks[t].pc = "entered"
    /\ bayesian_optimizer' = "BayesianOptimizer"
    /\ gp' = gp_after_suggest(gp, X_observed, y_observed)
    /\ \E s \in suggest_next_point(X_observed, y_observed) :
          IF s.status = "raised"
          THEN /\ tasks' = [tasks EXCEPT ![t] =
                               [IdleTask EXCEPT !.pc = "raised",
                                                !.coroutine = "optimize_with_public_data",
                                                !.error = s.error]]
               /\ running' = 0
          ELSE /\ tasks' = [tasks EXCEPT ![t].pc = "suggested", ![t].params = s.point,
                                         ![t].seen = Len(X_observed)]
               /\ running' = Yield(t, "suggested")
    /\ UNCHANGED <<X_observed, y_observed, suggestion, score, fuelVars, chemVars, carbonVars, callVars>>

\* line 360: objective_value = self.objective_function(suggested_params, public_data)
Optimize_Score(t) ==
    /\ CanRun(t)
    /\ tasks[t].pc = "suggested"
    /\ tasks' = [tasks EXCEPT ![t].pc = "scored",
                    ![t].value = objective_function(tasks[t].params, tasks[t].public_data)]
    /\ running' = Yield(t, "scored")
    /\ UNCHANGED <<fuelVars, searchVars, chemVars, carbonVars, callVars>>

\* lines 363-381: the observation is recorded, the improvement over the
\* current_params the call was given is computed when there are any, and the
\* result is returned
Optimize_Update(t, current_params) ==
    /\ CanRun(t)
    /\ tasks[t].pc = "scored"
    /\ Len(X_observed) < MaxObservations
    /\ X_observed' = Appended(X_observed, AsArray(tasks[t].params))
    /\ y_observed' = Appended(y_observed, tasks[t].value)
    /\ tasks' = [tasks EXCEPT ![t] =
                    IF current_params # NoPoint /\ ObjectiveRaises(current_params)
                    THEN [IdleTask EXCEPT !.pc = "raised",
                                          !.coroutine = "optimize_with_public_data",
                                          !.error = "KeyError"]
                    ELSE [IdleTask EXCEPT !.pc = "returned",
                                          !.coroutine = "optimize_with_public_data"]]
    /\ running' = 0
    /\ UNCHANGED <<bayesian_optimizer, gp, suggestion, score, fuelVars, chemVars, carbonVars, callVars>>

\* the coroutine ends: its result, or its exception, goes to whoever awaits it
Respond(t) ==
    /\ running = 0
    /\ tasks[t].pc \in {"returned", "raised"}
    /\ tasks' = [tasks EXCEPT ![t] = IdleTask]
    /\ UNCHANGED <<running, fuelVars, searchVars, chemVars, carbonVars, callVars>>

NextService ==
    \/ \E t \in Tasks, include_public_data \in BOOLEAN : Request(t, include_public_data)
    \/ \E t \in Tasks : Resume(t)
    \/ \E t \in Tasks : Schedule(t)
    \/ \E t \in Tasks : Enter(t, AggregatedData)
    \/ \E t \in Tasks : Optimize_Suggest(t)
    \/ \E t \in Tasks : Optimize_Score(t)
    \/ \E t \in Tasks, current_params \in AwaitedParams : Optimize_Update(t, current_params)
    \/ \E t \in Tasks : Respond(t)

---------------------------------------------------------------------------
(* optimize_with_public_data called by one caller at a time, each call run  *)
(* from its first line to its return or its exception.                      *)

\* calls made on the one process_optimizer
MaxCalls == 10

\* calls among them that fail after their suggestion
MaxFailed == 1

\* current_params of a call: none, three of the keys, or all six
CallParams == CurrentParams \cup {Centre}

\* public_data of a call: empty, or the aggregated data
CallData == {EmptyDict, AggregatedData}

\* objective_function on every point a call can score with either data
CallScores ==
    [params \in BoxPoints, public_data \in CallData |->
        objective_function(params, public_data)]

NoOptimization == [status |-> "none"]

OptimizationRaised(error) == [status |-> "raised", error |-> error]

\* the improvements dictionary: empty unless current_params are given
Improvements_Of(objective_value, current_params, public_data) ==
    IF current_params = NoPoint THEN EmptyDict
    ELSE LET current_objective == CallScores[current_params, public_data]
             gain == FSub(objective_value, current_objective)
         IN  [expected_improvement |-> gain,
              percentage_improvement |->
                  IF current_objective # Whole(0)
                  THEN FMul(FDiv(gain, current_objective), Whole(100))
                  ELSE Whole(0)]

\* 'confidence': min(0.95, 0.5 + len(self.bayesian_optimizer.X_observed) * 0.05)
Confidence(n) == FMin(Frac(95, 100), FAdd(Frac(5, 10), FMul(Whole(n), Frac(5, 100))))

\* the dictionary a call returns; phase names the branch its suggestion took
OptimizationReturned(s, objective_value, improvements, n) ==
    [status |-> "returned", optimal_parameters |-> s.point,
     objective_value |-> objective_value, improvements |-> improvements,
     confidence |-> Confidence(n), iterations |-> n, phase |-> s.phase]

\* lines 353-354: the optimizer the call works on, created if there is none
OptimizerOfCall ==
    IF bayesian_optimizer = "None"
    THEN [X |-> <<>>, y |-> <<>>, gp |-> NoFit]
    ELSE [X |-> X_observed, y |-> y_observed, gp |-> gp]

InitCalls ==
    /\ optimization = NoOptimization
    /\ completed = 0

\* await process_optimizer.optimize_with_public_data(public_data, current_params)
OptimizeWithPublicData(public_data, current_params) ==
    /\ running = 0
    /\ Len(X_observed) < MaxCalls
    /\ (current_params # NoPoint /\ ObjectiveRaises(current_params))
           => Len(X_observed) - completed < MaxFailed
    /\ LET opt == OptimizerOfCall
       IN  /\ bayesian_optimizer' = "BayesianOptimizer"
           /\ gp' = gp_after_suggest(opt.gp, opt.X, opt.y)
           /\ \E s \in suggest_next_point(opt.X, opt.y) :
                 IF s.status = "raised"
                 THEN /\ optimization' = OptimizationRaised(s.error)
                      /\ X_observed' = opt.X
                      /\ y_observed' = opt.y
                      /\ completed' = completed
                 ELSE LET objective_value == CallScores[s.point, public_data]
                          X == Appended(opt.X, AsArray(s.point))
                      IN  /\ X_observed' = X
                          /\ y_observed' = Appended(opt.y, objective_value)
                          /\ IF current_params # NoPoint /\ ObjectiveRaises(current_params)
                             THEN /\ optimization' = OptimizationRaised("KeyError")
                                  /\ completed' = completed
                             ELSE /\ optimization' =
                                         OptimizationReturned(s, objective_value,
                                             Improvements_Of(objective_value, current_params,
                                                             public_data),
                                             Len(X))
                                  /\ completed' = completed + 1
    /\ UNCHANGED <<suggestion, score, fuelVars, serviceVars, chemVars, carbonVars>>

NextCalls ==
    \E public_data \in CallData, current_params \in CallParams :
        OptimizeWithPublicData(public_data, current_params)

---------------------------------------------------------------------------
(* Part 4: CementChemistryConstraints (physics_informed_models.py).  An      *)
(* oxide content is the decimal fraction written in the call; the ratios of *)
(* validate_chemistry and the clinker phases are floats.                    *)

Oxides == {"CaO", "SiO2", "Al2O3", "Fe2O3", "SO3"}

\* the defaults of the endpoint validate_chemistry of main.py:
\* cao = 65.0, sio2 = 21.0, al2o3 = 5.5, fe2o3 = 3.2, so3 = 2.0
ReferenceComposition ==
    [CaO |-> Whole(65), SiO2 |-> Whole(21), Al2O3 |-> Frac(55, 10), Fe2O3 |-> Frac(32, 10),
     SO3 |-> Whole(2)]

\* compositions with every ratio inside its band and SM or AM on an end of it:
\* AM = 1.0; SM = 2.7 and AM = 1.0; AM = 2.5; SM = 2.3 and AM = 1.0
BandEndCompositions ==
    {[CaO |-> Whole(75), SiO2 |-> Whole(25), Al2O3 |-> Whole(5), Fe2O3 |-> Whole(5),
      SO3 |-> Whole(0)],
     [CaO |-> Whole(80), SiO2 |-> Whole(27), Al2O3 |-> Whole(5), Fe2O3 |-> Whole(5),
      SO3 |-> Whole(0)],
     [CaO |-> Whole(53), SiO2 |-> Frac(175, 10), Al2O3 |-> Whole(5), Fe2O3 |-> Whole(2),
      SO3 |-> Whole(0)],
     [CaO |-> Whole(70), SiO2 |-> Whole(23), Al2O3 |-> Whole(5), Fe2O3 |-> Whole(5),
      SO3 |-> Whole(0)]}

\* compositions whose silica modulus is 2.3 in exact arithmetic, from contents
\* that no float holds exactly
InexactBandEndCompositions ==
    {[CaO |-> Whole(34), SiO2 |-> Frac(1104, 100), Al2O3 |-> Frac(32, 10),
      Fe2O3 |-> Frac(16, 10), SO3 |-> Whole(0)],
     [CaO |-> Whole(37), SiO2 |-> Frac(1219, 100), Al2O3 |-> Frac(31, 10),
      Fe2O3 |-> Frac(22, 10), SO3 |-> Whole(0)]}

\* contents below zero, which the endpoint of main.py lets through (lines
\* 355-361 bound nothing): the exact raw C3S is 0, the float is a residue
\* above 0
NegativeContentCompositions ==
    {[CaO |-> Frac(0 - 684, 100), SiO2 |-> Frac(0 - 36639, 10000)],
     [CaO |-> Frac(0 - 836, 100), SiO2 |-> Frac(0 - 44781, 10000), Al2O3 |-> Whole(0),
      Fe2O3 |-> Whole(0), SO3 |-> Whole(0)],
     [CaO |-> Frac(0 - 1368, 100), SiO2 |-> Frac(0 - 73278, 10000)]}

\* compositions with one phase that is not clamped away (lime alone), and
\* compositions whose clamped phases the two additions of sum() total apart
SinglePhaseCompositions ==
    {[CaO |-> Frac(625, 100)], [CaO |-> Whole(10)],
     [CaO |-> Whole(0), SiO2 |-> Frac(5, 10), Al2O3 |-> Whole(5), Fe2O3 |-> Whole(5),
      SO3 |-> Whole(0)],
     [CaO |-> Frac(5, 10), SiO2 |-> Whole(0), Al2O3 |-> Frac(55, 10), Fe2O3 |-> Whole(3),
      SO3 |-> Whole(0)]}

\* compositions the functions are called with: every oxide given, each absent
\* (0), typical of clinker, or, for CaO, far beyond any real content;
\* compositions with oxides missing; the reference and the band-end ones
Compositions ==
    [CaO : {Whole(0), Whole(65), Whole(1000)}, SiO2 : {Whole(0), Whole(21)},
     Al2O3 : {Whole(0), Whole(5)}, Fe2O3 : {Whole(0), Whole(3), Whole(5)},
     SO3 : {Whole(0), Whole(1)}]
        \cup {EmptyDict, [SiO2 |-> Whole(21)], [CaO |-> Whole(65), SiO2 |-> Whole(21)],
              [SO3 |-> Whole(2)], ReferenceComposition}
        \cup BandEndCompositions \cup InexactBandEndCompositions
        \cup NegativeContentCompositions \cup SinglePhaseCompositions

\* composition.get(key, 0)
Oxide(c, key) == Get(c, key, Whole(0))

\* what a division by zero yields, in place of a float: ZeroDivisionError
ZeroDivisionError == [s |-> 0, m |-> <<>>, e |-> 0]

\* a / b on floats
Divide(a, b) ==
    IF a = ZeroDivisionError \/ b = ZeroDivisionError \/ b = DZero
    THEN ZeroDivisionError
    ELSE DDiv(a, b)

\* 2.8 * sio2 + 1.2 * al2o3 + 0.65 * fe2o3
LsfDenominator(sio2, al2o3, fe2o3) ==
    DAdd(DAdd(DMul(DOf(28, 10), sio2), DMul(DOf(12, 10), al2o3)),
         DMul(DOf(65, 100), fe2o3))

\* the ratio without the test of its denominator
calculate_lsf_Unguarded(cao, so3, sio2, al2o3, fe2o3) ==
    Divide(DSub(cao, DMul(DOf(7, 10), so3)), LsfDenominator(sio2, al2o3, fe2o3))

\* calculate_lsf(cao, so3, sio2, al2o3, fe2o3)
calculate_lsf(cao, so3, sio2, al2o3, fe2o3) ==
    LET denominator == LsfDenominator(sio2, al2o3, fe2o3)
    IN  IF denominator = DZero THEN DZero
        ELSE Divide(DSub(cao, DMul(DOf(7, 10), so3)), denominator)

\* the modulus over Al2O3 alone
calculate_silica_modulus_AluminaOnly(sio2, al2o3, fe2o3) ==
    IF al2o3 = DZero THEN DZero ELSE Divide(sio2, al2o3)

\* calculate_silica_modulus(sio2, al2o3, fe2o3)
calculate_silica_modulus(sio2, al2o3, fe2o3) ==
    LET denominator == DAdd(al2o3, fe2o3)
    IN  IF denominator = DZero THEN DZero ELSE Divide(sio2, denominator)

\* calculate_alumina_modulus(al2o3, fe2o3)
calculate_alumina_modulus(al2o3, fe2o3) ==
    IF fe2o3 = DZero THEN DZero ELSE Divide(al2o3, fe2o3)

\* the band without its ends
Within_Exclusive(v, low, high) == DLess(FloatOf(low), v) /\ DLess(v, FloatOf(high))

\* low <= v <= high, for the literals low and high
Within(v, low, high) == DLeq(FloatOf(low), v) /\ DLeq(v, FloatOf(high))

\* one entry of the result: {'value': v, 'valid': low <= v <= high,
\* 'optimal_range': [low, high]}
RatioEntry(v, low, high) ==
    [value |-> v, valid |-> Within(v, low, high), optimal_range |-> <<low, high>>]

\* validate_chemistry(composition).get(key, 0) as a float
OxideFloat(c, key) == FloatOf(Oxide(c, key))

\* a ZeroDivisionError in a ratio propagates out of validate_chemistry
ValidateRaised == [call |-> "validate_chemistry", error |-> "ZeroDivisionError"]

\* validate_chemistry(composition)
Validate(c) ==
    LET lsf == calculate_lsf(OxideFloat(c, "CaO"), OxideFloat(c, "SO3"),
                             OxideFloat(c, "SiO2"), OxideFloat(c, "Al2O3"),
                             OxideFloat(c, "Fe2O3"))
        sm == calculate_silica_modulus(OxideFloat(c, "SiO2"), OxideFloat(c, "Al2O3"),
                                       OxideFloat(c, "Fe2O3"))
        am == calculate_alumina_modulus(OxideFloat(c, "Al2O3"), OxideFloat(c, "Fe2O3"))
    IN  IF ZeroDivisionError \in {lsf, sm, am} THEN ValidateRaised
        ELSE [call |-> "validate_chemistry",
              lsf |-> RatioEntry(lsf, Frac(92, 100), Frac(98, 100)),
              sm |-> RatioEntry(sm, Frac(23, 10), Frac(27, 10)),
              am |-> RatioEntry(am, Whole(1), Frac(25, 10)),
              overall_valid |->
                  /\ Within(lsf, Frac(92, 100), Frac(98, 100))
                  /\ Within(sm, Frac(23, 10), Frac(27, 10))
                  /\ Within(am, Whole(1), Frac(25, 10))]

\* max(0, min(100, v)): v, or the int 0 or 100
Clamp(v) == DMax(DOfInt(0), DMin(DOfInt(100), v))

PhaseNames == {"C3S", "C2S", "C3A", "C4AF"}

\* the keys of the phases dictionary, in the order they are inserted
PhaseOrder == <<"C3S", "C2S", "C3A", "C4AF">>

\* the places of phases.values() that hold an int: those where the clamp
\* returned its 0 or its 100 in place of the raw float
ClampedPlaces(raw) ==
    {i \in 1..Len(PhaseOrder) : Clamp(raw[PhaseOrder[i]]) \in {DOfInt(0), DOfInt(100)}}

\* sum(phases.values()), by the addition `mode` of the interpreter
PhaseTotal(phases, raw, mode) ==
    PySum(<<phases.C3S, phases.C2S, phases.C3A, phases.C4AF>>, ClampedPlaces(raw), mode)

\* Bogue's equations, before the clamp
BogueRaw(c) ==
    LET cao == OxideFloat(c, "CaO")
        sio2 == OxideFloat(c, "SiO2")
        al2o3 == OxideFloat(c, "Al2O3")
        fe2o3 == OxideFloat(c, "Fe2O3")
    IN  With(DSub(DSub(DSub(DMul(DOf(4071, 1000), cao), DMul(DOf(7600, 1000), sio2)),
                       DMul(DOf(6718, 1000), al2o3)),
                  DMul(DOf(1430, 1000), fe2o3)), LAMBDA c3s :
            [C3S  |-> c3s,
             C2S  |-> DSub(DMul(DOf(2867, 1000), sio2), DMul(DOf(7544, 10000), c3s)),
             C3A  |-> DSub(DMul(DOf(2650, 1000), al2o3), DMul(DOf(1692, 1000), fe2o3)),
             C4AF |-> DMul(DOf(3043, 1000), fe2o3)])

\* {k: v * 100 / total for k, v in phases.items()}
Normalized(phases, total) ==
    [C3S  |-> DDiv(DMul(phases.C3S, DOfInt(100)), total),
     C2S  |-> DDiv(DMul(phases.C2S, DOfInt(100)), total),
     C3A  |-> DDiv(DMul(phases.C3A, DOfInt(100)), total),
     C4AF |-> DDiv(DMul(phases.C4AF, DOfInt(100)), total)]

\* calculate_clinker_phases(composition), in an interpreter whose sum() adds
\* by `mode`
calculate_clinker_phases(c, mode) ==
    With(BogueRaw(c), LAMBDA raw :
        With([C3S  |-> Clamp(raw.C3S), C2S  |-> Clamp(raw.C2S),
              C3A  |-> Clamp(raw.C3A), C4AF |-> Clamp(raw.C4AF)], LAMBDA phases :
            With(PhaseTotal(phases, raw, mode), LAMBDA total :
                IF DLess(DOfInt(0), total) THEN Normalized(phases, total) ELSE phases)))

NoComposition == [k \in {} |-> 0]

NoChemistry == [call |-> "none"]

InitChem ==
    /\ composition = NoComposition
    /\ chemistry = NoChemistry

\* the compositions validated, each with its result, computed once
Validations == { [composition |-> c, returned |-> Validate(c)] : c \in Compositions }

\* CementChemistryConstraints.validate_chemistry(c)
ValidateChemistry(c) ==
    /\ composition' = c
    /\ \E call \in Validations :
          call.composition = c /\ chemistry' = call.returned
    /\ UNCHANGED <<fuelVars, searchVars, serviceVars, carbonVars, callVars>>

\* the phases of the compositions under either addition, computed once
ClinkerPhases ==
    { [composition |-> c, summation |-> mode,
       returned |-> calculate_clinker_phases(c, mode)] :
      c \in Compositions, mode \in Summations }

\* CementChemistryConstraints.calculate_clinker_phases(c), in an interpreter
\* whose sum() adds by `mode`
CalculateClinkerPhases(c, mode) ==
    /\ Sums(mode)
    /\ composition' = c
    /\ \E call \in ClinkerPhases :
          /\ call.composition = c
          /\ call.summation = mode
          /\ chemistry' = [call |-> "calculate_clinker_phases", phases |-> call.returned]
    /\ UNCHANGED <<fuelVars, searchVars, serviceVars, callVars, footprint, sustainability>>

NextChem ==
    \/ \E c \in Compositions : ValidateChemistry(c)
    \/ \E c \in Compositions, mode \in Summations : CalculateClinkerPhases(c, mode)

---------------------------------------------------------------------------
(***************************************************************************)
(* Part 5: CarbonFootprintTracker._calculate_sustainability_score.         *)
(*                                                                         *)
(* The scores are floats.  A carbon intensity is given as the decimal      *)
(* fraction <<n, d>> written in the call and a rounded score is reported   *)
(* as the decimal fraction round() yields, a whole number of tenths.       *)
(***************************************************************************)

\* self.sustainability_weights
sustainability_weights ==
    [carbon_intensity |-> DOf(35, 100),
     alternative_fuel_rate |-> DOf(25, 100),
     energy_efficiency |-> DOf(20, 100),
     waste_heat_recovery |-> DOf(10, 100),
     circular_economy |-> DOf(10, 100)]

\* round(x, 1) of a float, as a decimal fraction
Round1(x) == Frac(PyRound(x, 10), 10)

\* the rescale between the worst and the best benchmark, never clamped
ci_score_Unclamped(carbon_intensity) ==
    DMul(DDiv(DSub(DOfInt(800), FloatOf(carbon_intensity)), DOfInt(800 - 550)), DOfInt(100))

\* ci_score = max(0, min(100, (800 - carbon_intensity) / (800 - 550) * 100))
ci_score(carbon_intensity) ==
    DMax(DOfInt(0),
         DMin(DOfInt(100),
              DMul(DDiv(DSub(DOfInt(800), FloatOf(carbon_intensity)), DOfInt(800 - 550)),
                   DOfInt(100))))

\* the scores dictionary, one rounded entry per component
component_scores(carbon_intensity) ==
    [carbon_intensity |-> Round1(ci_score(carbon_intensity)),
     alternative_fuel_rate |-> Round1(DMin(DOfInt(100), DOfInt(30 * 2))),
     energy_efficiency |->
         Round1(DMax(DOfInt(0),
                     DMin(DOfInt(100),
                          DMul(DDiv(DOfInt(120 - 100), DOfInt(120 - 95)), DOfInt(100))))),
     waste_heat_recovery |-> Round1(DOfInt(70)),
     circular_economy |-> Round1(DOfInt(50))]

ScoreOrder ==
    <<"carbon_intensity", "alternative_fuel_rate", "energy_efficiency",
      "waste_heat_recovery", "circular_economy">>

\* sum() of the products scores[key] * weight, every one a float, taken in
\* the order of the keys, by the addition `mode` of the interpreter
WeightedSum(scores, mode) ==
    PySum([i \in 1..Len(ScoreOrder) |->
              DMul(FloatOf(scores[ScoreOrder[i]]), sustainability_weights[ScoreOrder[i]])],
          {}, mode)

\* total_score = sum(scores[key] * self.sustainability_weights[key] for key in scores)
total_score(scores, mode) == WeightedSum(scores, mode)

\* the if / elif chain that determines the grade
Grade(total) ==
    IF DLeq(DOfInt(90), total) THEN "A+"
    ELSE IF DLeq(DOfInt(80), total) THEN "A"
    ELSE IF DLeq(DOfInt(70), total) THEN "B+"
    ELSE IF DLeq(DOfInt(60), total) THEN "B"
    ELSE IF DLeq(DOfInt(50), total) THEN "C"
    ELSE "D"

\* CarbonFootprintTracker._interpret_score
interpret_score(total) ==
    IF DLeq(DOfInt(80), total) THEN "Outstanding sustainability performance. Leading industry standards."
    ELSE IF DLeq(DOfInt(70), total) THEN "Good sustainability practices. Above average performance."
    ELSE IF DLeq(DOfInt(60), total) THEN "Moderate sustainability. Room for improvement in key areas."
    ELSE "Sustainability improvement needed. Focus on emissions reduction strategies."

\* CarbonFootprintTracker._calculate_sustainability_score(emissions, carbon_intensity):
\* the grade and the interpretation are taken from the total before it is rounded
calculate_sustainability_score(emissions, carbon_intensity, mode) ==
    LET scores == component_scores(carbon_intensity)
        total == total_score(scores, mode)
    IN  [total_score |-> Round1(total),
         grade |-> Grade(total),
         component_scores |-> scores,
         interpretation |-> interpret_score(total)]

\* carbon intensities in kg CO2 per tonne: every fifth whole value around the
\* benchmark range, the far ends, the quarter values next to a grade threshold,
\* values whose score lies halfway between two tenths (0.05, 50.25, 77.25),
\* and one more (777.77) whose total the two additions of sum() round apart
CarbonIntensities ==
    {Whole(5 * i) : i \in 100..170}
        \cup {Whole(0 - 50), Whole(0), Whole(1000),
              Frac(60725, 100), Frac(67875, 100), Frac(75025, 100),
              Frac(799875, 1000), Frac(674375, 1000), Frac(606875, 1000),
              Frac(77777, 100)}

\* emissions breakdowns as _calculate_emissions_breakdown builds them (kg CO2 / hour)
EmissionsBreakdowns ==
    {EmptyDict,
     [fuel_combustion |-> 24123, electricity |-> 24600, process_emissions |-> 149625,
      total_kg_co2_per_hour |-> 198348]}

NoFootprint == [emissions |-> EmptyDict, carbon_intensity |-> NaN]

NoSustainability == [grade |-> "none"]

InitCarbon ==
    /\ footprint = NoFootprint
    /\ sustainability = NoSustainability
    /\ summation = "unobserved"

\* the calls made, each with its result under either addition, computed once
SustainabilityScores ==
    { [emissions |-> e, carbon_intensity |-> ci, summation |-> mode,
       returned |-> calculate_sustainability_score(e, ci, mode)] :
      e \in EmissionsBreakdowns, ci \in CarbonIntensities, mode \in Summations }

\* one call of _calculate_sustainability_score, in an interpreter whose sum()
\* adds by `mode`
CalculateSustainabilityScore(emissions, carbon_intensity, mode) ==
    /\ Sums(mode)
    /\ footprint' = [emissions |-> emissions, carbon_intensity |-> carbon_intensity]
    /\ \E call \in SustainabilityScores :
          /\ call.emissions = emissions
          /\ call.carbon_intensity = carbon_intensity
          /\ call.summation = mode
          /\ sustainability' = call.returned
    /\ UNCHANGED <<fuelVars, searchVars, serviceVars, chemVars, callVars>>

NextCarbon ==
    \E emissions \in EmissionsBreakdowns, carbon_intensity \in CarbonIntensities,
       mode \in Summations :
        CalculateSustainabilityScore(emissions, carbon_intensity, mode)

---------------------------------------------------------------------------
(* Specifications *)

Init ==
    InitFuel /\ InitSearch /\ InitService /\ InitChem /\ InitCarbon /\ InitCalls

Spec == Init /\ [][Next]_vars

SpecSearch == Init /\ [][NextSearch]_vars

SpecObjective == Init /\ [][NextObjective]_vars

SpecService == Init /\ [][NextService]_vars

SpecCalls == Init /\ [][NextCalls]_vars

SpecChem == Init /\ [][NextChem]_vars

SpecCarbon == Init /\ [][NextCarbon]_vars

---------------------------------------------------------------------------
(* Properties of the search *)

\* C13: every point suggest_next_point returns, in the cold-start phase and in
\* the guided phase, after any sequence of update and suggest_next_point calls,
\* has each coordinate inside the inclusive [min, max] bound of its dimension.
C13_SuggestionsInBounds ==
    suggestion.status = "returned" => InBounds(suggestion.point)

\* a guided suggestion on a history that holds an out-of-bounds point, whose
\* descent left the box and was projected onto its high corner
C13_Witness ==
    /\ suggestion.status = "returned"
    /\ suggestion.point = HighCorner
    /\ Len(X_observed) >= WarmUp
    /\ \E i \in 1..Len(X_observed) : X_observed[i] = AsArray(AboveBox)

IsAppendOf(new, old) ==
    /\ Len(new) = Len(old) + 1
    /\ SubSeq(new, 1, Len(old)) = old

\* C14: the observation history is append-only: a step either leaves both lists
\* as they are or appends exactly one entry at the end of each, the two lists
\* keep the same length, and a suggest_next_point call leaves them unchanged.
C14_HistoryAppendOnly ==
    [][ /\ Len(X_observed') = Len(y_observed')
        /\ \/ UNCHANGED <<X_observed, y_observed>>
           \/ IsAppendOf(X_observed', X_observed) /\ IsAppendOf(y_observed', y_observed)
        /\ suggestion' # suggestion => UNCHANGED <<X_observed, y_observed>> ]_vars

\* a history of different entries on which a suggestion was made
C14_Witness ==
    /\ Len(X_observed) >= 3
    /\ Len(X_observed) = Len(y_observed)
    /\ X_observed[1] # X_observed[2]
    /\ y_observed[2] # y_observed[3]
    /\ suggestion.status = "returned"

\* C15: suggest_next_point never fails and never returns an empty suggestion: a
\* call that was made returned a complete in-bounds parameter vector.
C15_SuggestNeverFails ==
    suggestion.status # "none" =>
        suggestion.status = "returned" /\ InBounds(suggestion.point)

AllNumbers(y) == \A i \in 1..Len(y) : ~IsNaN(y[i])

\* before <= after as Python compares them: False when either is NaN
NotAbove(before, after) == ~IsNaN(before) /\ ~IsNaN(after) /\ FLeq(before, after)

\* C16 as stated: across any sequence of update calls the running best observed
\* value, the incumbent max(y_observed) of the acquisition function, never
\* decreases from one call to the next.
C16_RunningBestNonDecreasing ==
    [][ y_observed' # y_observed =>
            NotAbove(Incumbent(y_observed), Incumbent(y_observed')) ]_vars

\* C16 amended: across update calls that record numbers the running best
\* observed value, the incumbent max(y_observed) of the acquisition function,
\* never decreases from one call to the next, from the first observation on.
C16_RunningBestNonDecreasingOverNumbers ==
    [][ (y_observed # <<>> /\ AllNumbers(y_observed')) =>
            NotAbove(Incumbent(y_observed), Incumbent(y_observed')) ]_vars

\* an observation worse than the one before it was recorded, and the incumbent
\* is still the earlier one
C16_Witness ==
    /\ Len(y_observed) >= 2
    /\ AllNumbers(y_observed)
    /\ FLess(y_observed[2], y_observed[1])
    /\ Incumbent(y_observed) = y_observed[1]

\* the request is between its suggestion and its update
MidSequence(t) == tasks[t].pc \in {"suggested", "scored"}

\* C17: concurrent requests on the shared process_optimizer are serialized: no
\* two requests are inside their suggest-score-update sequences at once, and
\* the history a request's suggestion was made on is still the history when the
\* request records its observation (no other request appended in between).
\* A request is a coroutine that calls optimize_with_public_data.
C17_RequestsSerialized ==
    /\ \A t, u \in Tasks : (t # u /\ MidSequence(t)) => ~MidSequence(u)
    /\ \A t \in Tasks : MidSequence(t) => tasks[t].seen = Len(X_observed)

\* two requests in flight: one holds a suggestion it has scored, the other
\* waits for the loop to run it, and earlier requests have left observations
C17_Witness ==
    \E t, u \in Tasks :
        /\ t # u
        /\ tasks[t].pc = "scored"
        /\ tasks[u].pc = "scheduled"
        /\ tasks[u].coroutine = "optimize_with_public_data"
        /\ Len(X_observed) >= 2

---------------------------------------------------------------------------
(* Properties of the chemistry functions *)

\* the phases added up: each addition rounded, in the order of the keys
SumOfPhases(phases) ==
    DAdd(DAdd(DAdd(phases["C3S"], phases["C2S"]), phases["C3A"]), phases["C4AF"])

\* |v - 100| <= 1e-6
Near100(v) == DLeq(DAbs(DSub(v, DOfInt(100))), DOf(1, 1000000))

\* C19: for every oxide composition, an all-zero one included, the phases
\* calculate_clinker_phases returns sum to 100 within 1e-6 and none of them
\* is negative.
C19_PhasesSumTo100 ==
    chemistry.call = "calculate_clinker_phases" =>
        /\ Near100(SumOfPhases(chemistry.phases))
        /\ \A k \in PhaseNames : DLeq(DZero, chemistry.phases[k])

\* the same for the compositions of which some raw phase is positive
C19_PhasesSumTo100WhenPositive ==
    ( /\ chemistry.call = "calculate_clinker_phases"
      /\ \E k \in PhaseNames : DLess(DZero, BogueRaw(composition)[k]) ) =>
        /\ Near100(SumOfPhases(chemistry.phases))
        /\ \A k \in PhaseNames : DLeq(DZero, chemistry.phases[k])

\* C20: the ratio functions never divide by zero: validate_chemistry returns a
\* result for every composition, and a ratio whose denominator is 0 comes back
\* as 0 and is marked invalid.
C20_ZeroDenominatorsReturnZero ==
    chemistry.call = "validate_chemistry" =>
        LET sio2 == OxideFloat(composition, "SiO2")
            al2o3 == OxideFloat(composition, "Al2O3")
            fe2o3 == OxideFloat(composition, "Fe2O3")
        IN  /\ chemistry # ValidateRaised
            /\ LsfDenominator(sio2, al2o3, fe2o3) = DZero =>
                   chemistry.lsf.value = DZero /\ ~chemistry.lsf.valid
            /\ DAdd(al2o3, fe2o3) = DZero =>
                   chemistry.sm.value = DZero /\ ~chemistry.sm.valid
            /\ fe2o3 = DZero =>
                   chemistry.am.value = DZero /\ ~chemistry.am.valid
            /\ (LsfDenominator(sio2, al2o3, fe2o3) = DZero \/ fe2o3 = DZero) =>
                   ~chemistry.overall_valid

\* validate_chemistry returned for a composition that names no oxide the
\* ratios divide by: all three denominators are 0
C20_Witness ==
    /\ chemistry.call = "validate_chemistry"
    /\ composition = [CaO |-> Whole(65), SO3 |-> Whole(1), SiO2 |-> Whole(0),
                      Al2O3 |-> Whole(0), Fe2O3 |-> Whole(0)]
    /\ chemistry # ValidateRaised
    /\ chemistry.lsf.value = DZero
    /\ chemistry.sm.value = DZero
    /\ chemistry.am.value = DZero

\* the band test of the claim, with both ends inside the band
InBand(v, low, high) == ~DLess(v, FloatOf(low)) /\ ~DLess(FloatOf(high), v)

\* C21: validate_chemistry reports overall_valid exactly when the three ratio
\* flags are true, and each flag is true exactly when its ratio is inside its
\* band, ends included: LSF in [0.92, 0.98], SM in [2.3, 2.7], AM in [1.0, 2.5].
C21_OverallValidIffAllBands ==
    (chemistry.call = "validate_chemistry" /\ chemistry # ValidateRaised) =>
        /\ chemistry.lsf.valid = InBand(chemistry.lsf.value, Frac(92, 100), Frac(98, 100))
        /\ chemistry.sm.valid = InBand(chemistry.sm.value, Frac(23, 10), Frac(27, 10))
        /\ chemistry.am.valid = InBand(chemistry.am.value, Whole(1), Frac(25, 10))
        /\ chemistry.overall_valid =
               (chemistry.lsf.valid /\ chemistry.sm.valid /\ chemistry.am.valid)

\* a composition found valid whose SM is on the upper end of its band and whose
\* AM is on the lower end of its band
C21_Witness ==
    /\ chemistry.call = "validate_chemistry"
    /\ chemistry # ValidateRaised
    /\ chemistry.overall_valid
    /\ chemistry.sm.value = DOf(27, 10)
    /\ chemistry.am.value = DOfInt(1)

\* the float v is within 10^-15 of the number n / d
WithinRounding(v, n, d) ==
    DLeq(DAbs(DSub(v, DOf(n, d))),
         DDiv(DOfInt(1), DMul(DOfInt(1000000), DOfInt(1000000000))))

\* C22 as stated: for the reference composition CaO 65, SiO2 21, Al2O3 5.5,
\* Fe2O3 3.2, SO3 2.0, validate_chemistry returns exactly the hand-computed
\* values LSF = 63.6 / 67.48, SM = 21 / 8.7 and AM = 5.5 / 3.2 = 1.71875: the
\* floats nearest to these numbers, or the quotients of the floats written.
C22_ReferenceValues ==
    (chemistry.call = "validate_chemistry" /\ composition = ReferenceComposition) =>
        /\ chemistry.lsf.value \in {DOf(6360, 6748), DDiv(DOf(636, 10), DOf(6748, 100))}
        /\ chemistry.sm.value \in {DOf(210, 87), DDiv(DOfInt(21), DOf(87, 10))}
        /\ chemistry.am.value = DOf(171875, 100000)

\* C22 amended: for the reference composition validate_chemistry returns LSF,
\* SM and AM within 10^-15 of the hand-computed 63.6 / 67.48, 21 / 8.7 and
\* 1.71875; SM is the float 21 / 8.7 and AM the float 1.71875, while LSF is
\* neither the float nearest to 63.6 / 67.48 nor the float quotient
\* 63.6 / 67.48: its denominator is computed as 67.47999999999999.
C22_ReferenceValuesWithinRounding ==
    (chemistry.call = "validate_chemistry" /\ composition = ReferenceComposition) =>
        /\ WithinRounding(chemistry.lsf.value, 6360, 6748)
        /\ WithinRounding(chemistry.sm.value, 210, 87)
        /\ chemistry.sm.value = DDiv(DOfInt(21), DOf(87, 10))
        /\ chemistry.am.value = DOf(171875, 100000)
        /\ chemistry.lsf.valid /\ chemistry.sm.valid /\ chemistry.am.valid

\* validate_chemistry was called on the reference composition, which it finds
\* valid, and returned an LSF that is not the float 63.6 / 67.48
C22_Witness ==
    /\ chemistry.call = "validate_chemistry"
    /\ composition = ReferenceComposition
    /\ chemistry.overall_valid
    /\ chemistry.lsf.value # DDiv(DOf(636, 10), DOf(6748, 100))

---------------------------------------------------------------------------
(* Range of the sub-scores *)

InUnitInterval(v) == ~FLess(v, Whole(0)) /\ ~FLess(Whole(1), v)

\* every availability figure of the context is non-negative
NonNegativeAvailabilities(public_data) ==
    LET fuels == Get(Get(public_data, "alternative_fuels", EmptyDict), "fuels", EmptyDict)
    IN  \A f \in DOMAIN fuels :
            "availability_tonnes" \in DOMAIN fuels[f] => fuels[f].availability_tonnes >= 0

\* C27: for every parameter vector inside the optimization bounds and every
\* context with non-negative fuel availabilities, the energy, quality and
\* environmental sub-scores are each in [0, 1], and so is the composite
\* 0.4 * energy + 0.35 * quality + 0.25 * environmental, from which the
\* weather penalty is subtracted.
C27_SubScoresInUnitInterval ==
    (score.called /\ InBounds(score.params) /\ NonNegativeAvailabilities(score.public_data)) =>
        LET composite ==
                FAdd(FAdd(FMul(Frac(4, 10), score.locals.energy_eff),
                          FMul(Frac(35, 100), score.locals.quality_score)),
                     FMul(Frac(25, 100), score.locals.env_score))
        IN  /\ InUnitInterval(score.locals.energy_eff)
            /\ InUnitInterval(score.locals.quality_score)
            /\ InUnitInterval(score.locals.env_score)
            /\ InUnitInterval(composite)
            /\ score.value = FSub(composite, weather_penalty(score.public_data))

\* the high corner of the box scored with more fuel on offer than the kiln
\* can burn: the reduction factor is capped and the environmental score is 0.527
C27_Witness ==
    /\ score.called
    /\ score.params = HighCorner
    /\ score.locals.env_score = Frac(527, 1000)
    /\ FLess(score.locals.energy_eff, Frac(1, 2))
    /\ FLess(score.value, score.locals.env_score)

---------------------------------------------------------------------------
(* Clamp, then renormalise *)

\* a raw Bogue value cut to [0, 100]
Cut(v) ==
    IF DLess(v, DOfInt(0)) THEN DOfInt(0) ELSE IF DLess(DOfInt(100), v) THEN DOfInt(100) ELSE v

\* the phases the claim describes: 100 * clamp(raw) / sum of clamp(raw)
Renormalised(raw, mode) ==
    With([k \in PhaseNames |-> Cut(raw[k])], LAMBDA cut :
        With(PhaseTotal(cut, raw, mode), LAMBDA sum :
            [k \in PhaseNames |->
                IF DLess(DZero, sum) THEN DDiv(DMul(DOfInt(100), cut[k]), sum) ELSE cut[k]]))

\* C26: calculate_clinker_phases clamps each of the four raw Bogue values to
\* [0, 100] on its own and only then renormalises: when the clamped values
\* have a positive sum, each phase is 100 * clamp(raw) / sum of clamp(raw),
\* a phase with a negative raw value is 0 and every phase is in [0, 100].
C26_ClampThenRenormalise ==
    chemistry.call = "calculate_clinker_phases" =>
        LET raw == BogueRaw(composition)
        IN  DLess(DZero, PhaseTotal([k \in PhaseNames |-> Cut(raw[k])], raw, summation)) =>
                \A k \in PhaseNames :
                    /\ chemistry.phases[k] = Renormalised(raw, summation)[k]
                    /\ DLess(raw[k], DZero) => chemistry.phases[k] = DZero
                    /\ DLeq(DZero, chemistry.phases[k])
                    /\ DLeq(chemistry.phases[k], DOfInt(100))

\* the same with the upper end of the range widened by the rounding of
\* v * 100 / total: every phase is in [0, 100 + 1e-12]
C26_ClampThenRenormaliseWithinRounding ==
    chemistry.call = "calculate_clinker_phases" =>
        LET raw == BogueRaw(composition)
        IN  DLess(DZero, PhaseTotal([k \in PhaseNames |-> Cut(raw[k])], raw, summation)) =>
                \A k \in PhaseNames :
                    /\ chemistry.phases[k] = Renormalised(raw, summation)[k]
                    /\ DLess(raw[k], DZero) => chemistry.phases[k] = DZero
                    /\ DLeq(DZero, chemistry.phases[k])
                    /\ DLeq(chemistry.phases[k],
                            DAdd(DOfInt(100), DDiv(DOfInt(1), DMul(DOfInt(1000000), DOfInt(1000000)))))

\* a result in which one raw value was below 0, another above 100, and the
\* clamped values were renormalised
C26_Witness ==
    /\ chemistry.call = "calculate_clinker_phases"
    /\ \E k \in PhaseNames : DLess(BogueRaw(composition)[k], DZero)
    /\ \E k \in PhaseNames : DLess(DOfInt(100), BogueRaw(composition)[k])
    /\ \E k \in PhaseNames :
           DLess(DZero, chemistry.phases[k]) /\ DLess(chemistry.phases[k], DOfInt(100))

---------------------------------------------------------------------------
(* Phases of the optimizer and the lazy refit *)

\* C24: while the history holds fewer than 5 entries suggest_next_point
\* returns a uniformly random point and never fits the surrogate; from 5
\* entries on every call is a guided call that fits the surrogate.  The
\* phase follows from the history length alone, however many calls were made.
C24_PhaseFollowsHistoryLength ==
    [][ (suggestion' # suggestion \/ gp' # gp) =>
            IF Len(X_observed) < 5
            THEN /\ suggestion'.status = "returned"
                 /\ suggestion'.phase = "random"
                 /\ suggestion'.point \in Uniform(LowCorner, HighCorner)
                 /\ gp' = gp
            ELSE /\ suggestion'.phase = "guided"
                 /\ \/ gp' = [fitted |-> TRUE, X |-> X_observed, y |-> y_observed]
                    \/ suggestion'.error = "ValueError" /\ gp' = gp ]_vars

\* a guided call on a history of exactly 5 entries returned a point
C24_Witness ==
    /\ suggestion.status = "returned"
    /\ suggestion.phase = "guided"
    /\ gp.fitted
    /\ Len(gp.X) = 5
    /\ Len(X_observed) = 5

\* C25: update never fits the surrogate and changes nothing but the history;
\* the surrogate is fitted only inside a guided suggest_next_point call, on
\* the full history as it stands at that call.
C25_LazyRefit ==
    [][ /\ (X_observed' # X_observed \/ y_observed' # y_observed) =>
              /\ gp' = gp
              /\ UNCHANGED <<bayesian_optimizer, suggestion, score>>
        /\ gp' # gp =>
              /\ Len(X_observed) >= 5
              /\ suggestion'.phase = "guided"
              /\ UNCHANGED <<X_observed, y_observed>>
              /\ gp' = [fitted |-> TRUE, X |-> X_observed, y |-> y_observed] ]_vars

\* an observation recorded after a fit: the surrogate still holds the 5
\* entries of the fit, the history holds 6
C25_Witness ==
    /\ gp.fitted
    /\ Len(gp.X) = 5
    /\ Len(X_observed) = 6
    /\ SubSeq(X_observed, 1, 5) = gp.X

---------------------------------------------------------------------------
(* Failed calls and the history *)

\* C28: optimize_with_public_data is all-or-nothing on the observation
\* history: a call that fails (for example on a current_params that lacks a
\* key the scoring reads, as a map of three keys like the endpoint's does)
\* leaves the shared history exactly as it was before the call.
C28_FailedCallLeavesHistory ==
    [][ \A t \in Tasks :
            (tasks[t].pc \in {"entered", "suggested", "scored"} /\ tasks'[t].pc = "raised")
                => UNCHANGED <<X_observed, y_observed>> ]_vars

\* C29: the ProcessOptimizer creates its BayesianOptimizer once, on the first
\* optimize_with_public_data call, and never replaces it; the k-th completed
\* call returns iterations = k, uses a cold-start random point exactly when
\* k <= 5 and a guided point for every k >= 6, and reports
\* confidence = min(0.95, 0.5 + 0.05 * k), which never decreases in k and is
\* 0.95 from k = 9 on.
C29_KthCompletedCall ==
    [][ /\ bayesian_optimizer' = "BayesianOptimizer"
        /\ bayesian_optimizer = "BayesianOptimizer" =>
               /\ Len(X_observed') >= Len(X_observed)
               /\ SubSeq(X_observed', 1, Len(X_observed)) = X_observed
        /\ optimization'.status = "returned" =>
               /\ optimization'.iterations = completed'
               /\ (optimization'.phase = "random") = (completed' <= 5)
               /\ (optimization'.phase = "guided") = (completed' >= 6)
               /\ optimization'.confidence
                      = FMin(Frac(95, 100), FAdd(Frac(1, 2), Frac(5 * completed', 100)))
               /\ completed' >= 9 => optimization'.confidence = Frac(95, 100)
        /\ (optimization.status = "returned" /\ optimization'.status = "returned")
               => FLeq(optimization.confidence, optimization'.confidence) ]_vars

\* the same, stated for the length of the history instead of the number of
\* calls that returned: what the code does whether or not calls failed
C29_ByHistoryLength ==
    optimization.status = "returned" =>
        /\ optimization.iterations = Len(X_observed)
        /\ (optimization.phase = "random") = (optimization.iterations <= 5)
        /\ optimization.confidence
               = FMin(Frac(95, 100), FAdd(Frac(1, 2), Frac(5 * optimization.iterations, 100)))

---------------------------------------------------------------------------
(* Sustainability score *)

\* C23: in every sustainability result the returned grade is the one the
\* thresholds (>= 90 A+, >= 80 A, >= 70 B+, >= 60 B, >= 50 C, otherwise D)
\* assign to the returned total_score, the weighted sum of the five
\* component scores with weights 0.35 / 0.25 / 0.20 / 0.10 / 0.10.
C23_GradeMatchesReturnedTotal ==
    sustainability # NoSustainability =>
        /\ sustainability.total_score
               = Round1(total_score(sustainability.component_scores, summation))
        /\ sustainability.grade = Grade(FloatOf(sustainability.total_score))

\* C30: for every carbon intensity and every emissions breakdown the total
\* score lies in [43, 78]; the carbon-intensity component is clamped to
\* [0, 100], the other four are the constants 60, 80, 70 and 50, the result
\* depends on the carbon intensity alone, and the grade is B+, B, C or D.
C30_TotalBetween43And78 ==
    sustainability # NoSustainability =>
        LET scores == sustainability.component_scores
        IN  /\ ~FLess(sustainability.total_score, Whole(43))
            /\ ~FLess(Whole(78), sustainability.total_score)
            /\ ~FLess(scores.carbon_intensity, Whole(0))
            /\ ~FLess(Whole(100), scores.carbon_intensity)
            /\ scores.alternative_fuel_rate = Whole(60)
            /\ scores.energy_efficiency = Whole(80)
            /\ scores.waste_heat_recovery = Whole(70)
            /\ scores.circular_economy = Whole(50)
            /\ sustainability.grade \in {"B+", "B", "C", "D"}
            /\ \A call \in SustainabilityScores :
                   call.carbon_intensity = footprint.carbon_intensity
                       => sustainability = call.returned

\* a call with a real breakdown whose carbon intensity is beyond the worst
\* benchmark: the clamp acts and the total is the lower end, 43
C30_Witness ==
    /\ footprint.emissions # EmptyDict
    /\ footprint.carbon_intensity = Whole(1000)
    /\ sustainability.component_scores.carbon_intensity = Whole(0)
    /\ sustainability.total_score = Whole(43)
    /\ sustainability.grade = "D"

====
